---- MODULE Spec2Model ----
(***************************************************************************)
(* Forseti_Service: the versioned file store, the line-based three-way     *)
(* diff/merge, the in-memory edit-lock registry and the request pipeline   *)
(* (middleware chain and handlers) that ties them together.                *)
(*                                                                         *)
(* A file content is modelled as the record [lines, nl]: the string is     *)
(* its lines joined by "\n", followed by a final "\n" when nl is TRUE.     *)
(* Lines are drawn from non-empty strings, so the representation of a      *)
(* string is unique (the empty string is [lines |-> <<>>, nl |-> FALSE]).  *)
(***************************************************************************)
EXTENDS Naturals, Sequences, FiniteSets, TLC

VARIABLES
    now,        \* the clock read by Instant::now() and Utc::now()
    locks,      \* LOCK_REGISTRY.locks : file_id -> FileLock (or None)
    lockLog,    \* the last call of the registry on each file, with what it returned
    lockGrant,  \* per file and user, the successful try_acquire calls still in force
    meta,       \* metadata.json per file (None when the file does not exist)
    blobs,      \* <version_id>.content per file : version_id -> content
    nextId,     \* number of Uuid::new_v4() values drawn so far
    reqs,       \* the requests in flight, one per worker slot
    arrived,    \* number of requests received so far
    mIn,        \* inputs of the diff/merge functions under test
    mOut        \* their outputs

vars == <<now, locks, lockLog, lockGrant, meta, blobs, nextId, reqs, arrived, mIn, mOut>>

(***************************************************************************)
(* Bounds of the model.                                                    *)
(***************************************************************************)
MaxLines == 3
\* Seconds the clock advances in one step, and the last instant it reaches.
TickSecs == 150
MaxTime == 600
\* Uuid::new_v4() values drawn in one run (version ids and branch ids).
MaxIds == 3
\* Requests received in one run.
MaxRequests == 3
\* The ids drawn while merges run on a file that holds three versions.
MaxMergeIds == 5
\* Versions of the file whose history is listed, and their distinct timestamps.
MaxHistory == 4
\* Lines of a text submitted for marker stripping.
MaxMarked == 5

\* Lines of a base text whose marked merge is stripped again.
MaxMarkedBase == 2
\* Conflicts of a merge whose marked text is stripped again.
MaxMarkedConflicts == 4

\* Lines of a base text on which one side deletes lines and the other rewrites lines.
MaxShiftLines == 4

Users == {"A", "B"}
Files == {"f"}
\* Worker threads: the requests that can be in flight together.
Slots == {1, 2}

None == [none |-> TRUE]
Some(x) == [none |-> FALSE, val |-> x]

Min(a, b) == IF a <= b THEN a ELSE b
Max(a, b) == IF a >= b THEN a ELSE b

(***************************************************************************)
(* Text as lines.                                                          *)
(***************************************************************************)
Text(ls, nl) == [lines |-> ls, nl |-> nl]

\* str::lines(): the lines without their terminators.
Lines(c) == c.lines

\* Vec<String>::join("\n"): no terminator after the last line.
JoinLines(ls) == Text(ls, FALSE)

\* TextDiff::from_lines tokenises a text into lines that keep their terminator:
\* the last line of a text without a final newline differs from the same line
\* followed by a newline.
Tokens(c) ==
    [i \in 1..Len(c.lines) |-> <<c.lines[i], (i < Len(c.lines)) \/ c.nl>>]

(***************************************************************************)
(* diff_utils                                                              *)
(***************************************************************************)
RECURSIVE LcsLen(_, _)
LcsLen(a, b) ==
    IF a = <<>> \/ b = <<>> THEN 0
    ELSE IF Head(a) = Head(b) THEN 1 + LcsLen(Tail(a), Tail(b))
    ELSE Max(LcsLen(Tail(a), b), LcsLen(a, Tail(b)))

TextChange(s, e, tok) == [start_line |-> s, end_line |-> e, content |-> tok[1]]

\* The change list diff_text builds from TextDiff::iter_all_changes(): a shortest
\* line edit script in which a replaced run yields its deletions before its
\* insertions.  line_number counts the old lines passed (0-based).
RECURSIVE DiffFrom(_, _, _)
DiffFrom(old, new, line_number) ==
    IF old = <<>> /\ new = <<>> THEN <<>>
    ELSE IF old = <<>> THEN
        <<TextChange(line_number, line_number, Head(new))>>
            \o DiffFrom(old, Tail(new), line_number)
    ELSE IF new = <<>> THEN
        <<TextChange(line_number, line_number + 1, Head(old))>>
            \o DiffFrom(Tail(old), new, line_number + 1)
    ELSE IF Head(old) = Head(new) THEN
        DiffFrom(Tail(old), Tail(new), line_number + 1)
    ELSE IF LcsLen(Tail(old), new) >= LcsLen(old, Tail(new)) THEN
        <<TextChange(line_number, line_number + 1, Head(old))>>
            \o DiffFrom(Tail(old), new, line_number + 1)
    ELSE
        <<TextChange(line_number, line_number, Head(new))>>
            \o DiffFrom(old, Tail(new), line_number)

diff_text(old_text, new_text) == DiffFrom(Tokens(old_text), Tokens(new_text), 0)

\* Variant: the ranges are compared as half-open ones.
changes_overlap_half_open(change1, change2) ==
    \/ (change1.start_line >= change2.start_line /\ change1.start_line < change2.end_line)
    \/ (change2.start_line >= change1.start_line /\ change2.start_line < change1.end_line)


changes_overlap(change1, change2) ==
    \/ (change1.start_line >= change2.start_line /\ change1.start_line <= change2.end_line)
    \/ (change1.end_line >= change2.start_line /\ change1.end_line <= change2.end_line)
    \/ (change2.start_line >= change1.start_line /\ change2.start_line <= change1.end_line)
    \/ (change2.end_line >= change1.start_line /\ change2.end_line <= change1.end_line)

\* lines[start..end] with both ends clamped to the length (0-based, end exclusive).
extract_lines(lines, start_line, end_line) ==
    LET start == Min(start_line, Len(lines))
        end == Min(end_line, Len(lines))
    IN  SubSeq(lines, start + 1, end)

Conflict(yc, tc, base, your, their) ==
    [start_line |-> yc.start_line,
     end_line |-> yc.end_line,
     base_content |-> extract_lines(Lines(base), yc.start_line, yc.end_line),
     your_content |-> extract_lines(Lines(your), yc.start_line, yc.end_line),
     current_content |-> extract_lines(Lines(their), tc.start_line, tc.end_line)]

\* The inner loop of detect_conflicts: the conflicts of one of your changes with
\* their changes from the j-th on.
RECURSIVE ConflictsWith(_, _, _, _, _, _)
ConflictsWith(your_change, j, tcs, base, your, their) ==
    IF j > Len(tcs) THEN <<>>
    ELSE (IF changes_overlap(your_change, tcs[j])
            THEN <<Conflict(your_change, tcs[j], base, your, their)>>
            ELSE <<>>)
         \o ConflictsWith(your_change, j + 1, tcs, base, your, their)

\* The outer loop, over your changes from the i-th on: the conflicts come in the
\* order of the nested loops, your changes outer, their changes inner.
RECURSIVE ConflictsFrom(_, _, _, _, _, _)
ConflictsFrom(i, ycs, tcs, base, your, their) ==
    IF i > Len(ycs) THEN <<>>
    ELSE ConflictsWith(ycs[i], 1, tcs, base, your, their)
            \o ConflictsFrom(i + 1, ycs, tcs, base, your, their)

detect_conflicts(your_changes, their_changes, base, your, their) ==
    ConflictsFrom(1, your_changes, their_changes, base, your, their)

compare_versions(base, your, their) ==
    LET your_changes == diff_text(base, your)
        their_changes == diff_text(base, their)
        conflicts == detect_conflicts(your_changes, their_changes, base, your, their)
    IN  [changes |-> your_changes \o their_changes,
         conflicts |-> conflicts,
         can_auto_merge |-> conflicts = <<>>]

\* One iteration of the merge loop, at 1-based line i: the lines pushed (one or
\* none), or "abort" where the loop returns None.
MergeLine(i, bl, yl, tl) ==
    IF i <= Len(yl) /\ i <= Len(tl) /\ i <= Len(bl) THEN
        IF yl[i] # bl[i] /\ tl[i] # bl[i]
        THEN (IF yl[i] = tl[i] THEN <<yl[i]>> ELSE "abort")
        ELSE IF yl[i] # bl[i] THEN <<yl[i]>>
        ELSE IF tl[i] # bl[i] THEN <<tl[i]>>
        ELSE <<bl[i]>>
    ELSE IF i <= Len(yl) /\ i <= Len(bl) THEN <<yl[i]>>
    ELSE IF i <= Len(tl) /\ i <= Len(bl) THEN <<tl[i]>>
    ELSE IF i <= Len(yl) THEN <<yl[i]>>
    ELSE IF i <= Len(tl) THEN <<tl[i]>>
    ELSE <<>>

RECURSIVE MergeFrom(_, _, _, _, _)
MergeFrom(i, max_lines, bl, yl, tl) ==
    IF i > max_lines THEN Some(<<>>)
    ELSE LET here == MergeLine(i, bl, yl, tl)
             rest == MergeFrom(i + 1, max_lines, bl, yl, tl)
         IN  IF here = "abort" \/ rest.none THEN None
             ELSE Some(here \o rest.val)

attempt_auto_merge(base, your, their) ==
    IF ~compare_versions(base, your, their).can_auto_merge THEN None
    ELSE LET bl == Lines(base)
             yl == Lines(your)
             tl == Lines(their)
             max_lines == Max(Max(Len(yl), Len(tl)), Len(bl))
             merged == MergeFrom(1, max_lines, bl, yl, tl)
         IN  IF merged.none THEN None ELSE Some(JoinLines(merged.val))

\* A conflict's content as an element of result_lines: the extracted lines
\* joined with "\n" are one String, the empty String when no line was extracted.
AsElement(content) == IF content = <<>> THEN <<"">> ELSE content

\* The loop of create_marked_merge over the conflicts in reverse order: k is the
\* conflict treated next; result_lines is a vector of Strings, each held as the
\* lines it consists of.
RECURSIVE MarkFrom(_, _, _)
MarkFrom(conflicts, k, result_lines) ==
    IF k = 0 THEN result_lines
    ELSE LET conflict == conflicts[k]
             start == conflict.start_line
             end == conflict.end_line
             conflict_section == << <<"<<<<<<< CURRENT CHANGES">>,
                                    AsElement(conflict.current_content),
                                    <<"=======">>,
                                    AsElement(conflict.your_content),
                                    <<">>>>>>> YOUR CHANGES">> >>
             spliced == IF start < Len(result_lines)
                        THEN LET replace_end == Min(end, Len(result_lines))
                             IN  SubSeq(result_lines, 1, start) \o conflict_section
                                   \o SubSeq(result_lines, replace_end + 1, Len(result_lines))
                        ELSE result_lines \o conflict_section
         IN  MarkFrom(conflicts, k - 1, spliced)

\* result_lines.join("\n"), as the lines of the joined text.
RECURSIVE Flatten(_)
Flatten(result_lines) ==
    IF result_lines = <<>> THEN <<>> ELSE Head(result_lines) \o Flatten(Tail(result_lines))

create_marked_merge(base_content, your_content, their_content) ==
    LET diff_result == compare_versions(base_content, your_content, their_content)
        merged == attempt_auto_merge(base_content, your_content, their_content)
        their_lines == [i \in 1..Len(Lines(their_content)) |-> <<Lines(their_content)[i]>>]
    IN  IF diff_result.conflicts = <<>>
        THEN (IF merged.none THEN their_content ELSE merged.val)
        ELSE JoinLines(Flatten(MarkFrom(diff_result.conflicts, Len(diff_result.conflicts),
                                        their_lines)))

\* Lines as extract_resolved_content tells them apart.  The model's lines are
\* opaque strings, so each test of the code is the membership in the set of the
\* model's lines that pass it.
\* line.starts_with("<<<<<<< ")
StartsConflict(line) == line \in {"<<<<<<< CURRENT CHANGES"}

\* line == "======="
IsSeparator(line) == line = "======="

\* line.starts_with(">>>>>>> ")
EndsConflict(line) == line \in {">>>>>>> YOUR CHANGES"}

\* The line holds "<<<<<<< " somewhere ("<<<<<<< .*" matches inside it).
HoldsStart(line) == StartsConflict(line) \/ line \in {"see <<<<<<< below"}

\* Regex::new(r"<<<<<<< .*\n").is_match: some line that holds "<<<<<<< " is
\* followed by a line terminator.
conflict_start_re_is_match(content) ==
    \E i \in 1..Len(content.lines) :
        HoldsStart(content.lines[i]) /\ (i < Len(content.lines) \/ content.nl)

\* The loop of extract_resolved_content from line i on, with its two flags.
RECURSIVE ResolveFrom(_, _, _, _)
ResolveFrom(lines, i, in_conflict, current_section) ==
    IF i > Len(lines) THEN <<>>
    ELSE IF StartsConflict(lines[i]) THEN ResolveFrom(lines, i + 1, TRUE, TRUE)
    ELSE IF IsSeparator(lines[i]) THEN ResolveFrom(lines, i + 1, in_conflict, FALSE)
    ELSE IF EndsConflict(lines[i]) THEN ResolveFrom(lines, i + 1, FALSE, current_section)
    ELSE (IF ~in_conflict \/ ~current_section THEN <<lines[i]>> ELSE <<>>)
            \o ResolveFrom(lines, i + 1, in_conflict, current_section)

\* Variant: the text is returned as submitted.
extract_resolved_content_verbatim(content) == content

extract_resolved_content(content) ==
    IF conflict_start_re_is_match(content)
    THEN JoinLines(ResolveFrom(Lines(content), 1, FALSE, TRUE))
    ELSE content


(***************************************************************************)
(* FileLockRegistry (utils/file_lock.rs).  Each operation takes the map    *)
(* under the registry mutex, so each is one atomic step; t is the value of *)
(* Instant::now() inside it.                                               *)
(***************************************************************************)
\* The duration the middleware and the lock route pass to try_acquire_lock.
LOCK_SECS == 300
\* Durations a caller of the registry may pass.
Durations == {LOCK_SECS, LOCK_SECS \div 2}

FileLock(u, acquired, expires, d) ==
    [user_id |-> u, acquired_at |-> acquired, expires_at |-> expires, duration |-> d]

\* Variant: the expiry test on another user's lock is dropped, the entry replaced.
try_acquire_lock_steals(lk, f, u, d, t) ==
    IF ~lk[f].none /\ lk[f].val.user_id = u
    THEN [locks |-> [lk EXCEPT ![f] = Some(FileLock(u, lk[f].val.acquired_at, t + d, d))],
          ok |-> TRUE]
    ELSE [locks |-> [lk EXCEPT ![f] = Some(FileLock(u, t, t + d, d))], ok |-> TRUE]

\* Variant: a renewal installs a fresh entry, acquired_at included.
try_acquire_lock_resets(lk, f, u, d, t) ==
    IF ~lk[f].none /\ lk[f].val.user_id # u /\ lk[f].val.expires_at > t
    THEN [locks |-> lk, ok |-> FALSE]
    ELSE [locks |-> [lk EXCEPT ![f] = Some(FileLock(u, t, t + d, d))], ok |-> TRUE]

\* try_acquire_lock: the map afterwards and the returned bool.
try_acquire_lock(lk, f, u, d, t) ==
    LET fresh == [locks |-> [lk EXCEPT ![f] = Some(FileLock(u, t, t + d, d))], ok |-> TRUE]
    IN  IF lk[f].none THEN fresh
        ELSE IF lk[f].val.user_id = u THEN
            [locks |-> [lk EXCEPT ![f] = Some(FileLock(u, lk[f].val.acquired_at, t + d, d))],
             ok |-> TRUE]
        ELSE IF lk[f].val.expires_at <= t THEN fresh
        ELSE [locks |-> lk, ok |-> FALSE]

\* Variant: the entry is removed whoever asks.
release_lock_any(lk, f, u) ==
    IF ~lk[f].none
    THEN [locks |-> [lk EXCEPT ![f] = None], ok |-> TRUE]
    ELSE [locks |-> lk, ok |-> FALSE]


release_lock(lk, f, u) ==
    IF ~lk[f].none /\ lk[f].val.user_id = u
    THEN [locks |-> [lk EXCEPT ![f] = None], ok |-> TRUE]
    ELSE [locks |-> lk, ok |-> FALSE]

\* Variant: the expiry test is missing.
is_file_locked_no_expiry(lk, f, t) ==
    IF lk[f].none THEN None ELSE Some(lk[f].val.user_id)

\* is_file_locked: Some(holder) for an unexpired entry, None otherwise.
is_file_locked(lk, f, t) ==
    IF lk[f].none THEN None
    ELSE IF lk[f].val.expires_at <= t THEN None
    ELSE Some(lk[f].val.user_id)

can_user_edit(lk, f, u, t) ==
    LET holder == is_file_locked(lk, f, t)
    IN  IF holder.none THEN TRUE ELSE holder.val = u

\* Variant: retain keeps the entries that expire by now + LOCK_SECS only.
cleanup_expired_locks_eager(lk, t) ==
    LET kept == [f \in Files |->
                    IF ~lk[f].none /\ lk[f].val.expires_at > t + LOCK_SECS THEN lk[f] ELSE None]
    IN  [locks |-> kept,
         removed |-> Cardinality({f \in Files : ~lk[f].none})
                        - Cardinality({f \in Files : ~kept[f].none})]

\* Variant: retain keeps the entries with expires_at >= now.
cleanup_expired_locks_late(lk, t) ==
    LET kept == [f \in Files |->
                    IF ~lk[f].none /\ lk[f].val.expires_at >= t THEN lk[f] ELSE None]
    IN  [locks |-> kept,
         removed |-> Cardinality({f \in Files : ~lk[f].none})
                        - Cardinality({f \in Files : ~kept[f].none})]


cleanup_expired_locks(lk, t) ==
    LET kept == [f \in Files |->
                    IF ~lk[f].none /\ lk[f].val.expires_at > t THEN lk[f] ELSE None]
    IN  [locks |-> kept,
         removed |-> Cardinality({f \in Files : ~lk[f].none})
                        - Cardinality({f \in Files : ~kept[f].none})]

\* What FileLockMiddleware decides for POST /files/{f}/save and /edit, given the
\* UserContext it finds in the request extensions (None when there is none):
\* "reject" (409, status locked) or "pass".
LockGate(lk, f, ctx, t) ==
    LET holder == is_file_locked(lk, f, t)
    IN  IF ~ctx.none /\ ~holder.none /\ holder.val # ctx.val THEN "reject" ELSE "pass"

(***************************************************************************)
(* The registry called directly (it is a public, process-wide value; the   *)
(* lock routes call it too), while the clock advances.                     *)
(***************************************************************************)
NoGrants == [u \in Users |-> [latest |-> None, first |-> None]]

\* A successful try_acquire(f, u, d) at t is in force over [t, t + d).  latest
\* is the last such call of u on f, first the earliest one whose interval is not
\* over; release(f, u) ends both.
Granted(g, u, d, t) ==
    LET grant == Some([at |-> t, until |-> t + d])
    IN  [g EXCEPT ![u] = [latest |-> grant,
                          first |-> IF g[u].first.none \/ g[u].first.val.until <= t
                                    THEN grant ELSE g[u].first]]

\* Time passes, TickSecs at a time.  A request is short on that scale: the
\* clock moves between requests, not in the middle of one.
Tick ==
    /\ \A s \in Slots : reqs[s].pc \in {"idle", "done"}
    /\ now + TickSecs <= MaxTime
    /\ now' = now + TickSecs
    /\ UNCHANGED <<locks, lockLog, lockGrant, meta, blobs, nextId, reqs, arrived, mIn, mOut>>

CallTryAcquire(f, u, d) ==
    LET r == try_acquire_lock(locks, f, u, d, now)
    IN  /\ locks' = r.locks
        /\ lockLog' = [lockLog EXCEPT ![f] =
                Some([op |-> "try_acquire", user |-> u, duration |-> d, at |-> now,
                      before |-> locks[f], after |-> r.locks[f], ok |-> r.ok])]
        /\ lockGrant' = IF r.ok
                        THEN [lockGrant EXCEPT ![f] = Granted(lockGrant[f], u, d, now)]
                        ELSE lockGrant
        /\ UNCHANGED <<now, meta, blobs, nextId, reqs, arrived, mIn, mOut>>

CallRelease(f, u) ==
    LET r == release_lock(locks, f, u)
    IN  /\ locks' = r.locks
        /\ lockLog' = [lockLog EXCEPT ![f] =
                Some([op |-> "release", user |-> u, duration |-> 0, at |-> now,
                      before |-> locks[f], after |-> r.locks[f], ok |-> r.ok])]
        /\ lockGrant' = IF r.ok
                        THEN [lockGrant EXCEPT ![f][u] = [latest |-> None, first |-> None]]
                        ELSE lockGrant
        /\ UNCHANGED <<now, meta, blobs, nextId, reqs, arrived, mIn, mOut>>

CallCleanup ==
    /\ locks' = cleanup_expired_locks(locks, now).locks
    /\ UNCHANGED <<now, lockLog, lockGrant, meta, blobs, nextId, reqs, arrived, mIn, mOut>>

NextLock ==
    \/ Tick
    \/ \E f \in Files, u \in Users, d \in Durations : CallTryAcquire(f, u, d)
    \/ \E f \in Files, u \in Users : CallRelease(f, u)
    \/ CallCleanup

(***************************************************************************)
(* The diff/merge functions applied to bounded inputs: a base of distinct  *)
(* lines, and on each side an edit of it (every base line kept, deleted or *)
(* rewritten, and possibly a line added at the end).                       *)
(***************************************************************************)
BaseDoc == <<"a", "b", "c", "d", "e">>
YourOps == {"keep", "del", "x"}
TheirOps == {"keep", "del", "x", "y"}
Appends == {<<>>, <<"z">>}
\* Final newline of base, your and their.
NlCases == {<<FALSE, FALSE, FALSE>>, <<TRUE, TRUE, TRUE>>, <<TRUE, FALSE, TRUE>>}

MkText(ls, nl) == Text(ls, nl /\ ls # <<>>)

RECURSIVE ApplyOps(_, _)
ApplyOps(ls, ops) ==
    IF ls = <<>> THEN <<>>
    ELSE (CASE Head(ops) = "keep" -> <<Head(ls)>>
            [] Head(ops) = "del" -> <<>>
            [] OTHER -> <<Head(ops)>>)
         \o ApplyOps(Tail(ls), Tail(ops))

MergeInput(n, yo, ya, to, ta, nls) ==
    [base |-> MkText(SubSeq(BaseDoc, 1, n), nls[1]),
     your |-> MkText(ApplyOps(SubSeq(BaseDoc, 1, n), yo) \o ya, nls[2]),
     their |-> MkText(ApplyOps(SubSeq(BaseDoc, 1, n), to) \o ta, nls[3])]

NoInput == [base |-> Text(<<>>, FALSE), your |-> Text(<<>>, FALSE), their |-> Text(<<>>, FALSE)]
NoOutput == [op |-> "none"]


(***************************************************************************)
(* version_storage (utils/version_control.rs): metadata.json and the       *)
(* <version_id>.content blobs of a file.  A metadata document keeps the    *)
(* fields the handlers read: current_version, versions, branches and       *)
(* active_editors.  Version and branch ids are the Uuid draws 1, 2, ...;   *)
(* the string "initial" is INITIAL.                                        *)
(***************************************************************************)
INITIAL == 0

EmptyMap == [x \in {} |-> x]
Put(m, k, v) == [x \in (DOMAIN m) \cup {k} |-> IF x = k THEN v ELSE m[x]]

calculate_content_hash(content) == <<"sha256", content.lines, content.nl>>

FileVersion(user, message, content, t) ==
    [user_id |-> user, message |-> message,
     content_hash |-> calculate_content_hash(content), timestamp |-> t]

\* Variant: a new branch always starts at its base version.
FileBranch_head_is_base(name, user, base_version, head_version) ==
    [name |-> name, created_by |-> user,
     base_version |-> base_version, head_version |-> base_version]


FileBranch(name, user, base_version, head_version) ==
    [name |-> name, created_by |-> user,
     base_version |-> base_version, head_version |-> head_version]

ActiveEditor(user, t) == [user_id |-> user, editing_since |-> t, branch |-> None]

\* What load_versioned_file_metadata returns when metadata.json does not exist.
EmptyMeta ==
    [current_version |-> INITIAL, versions |-> EmptyMap,
     branches |-> EmptyMap, active_editors |-> <<>>]

load_versioned_file_metadata(f) == IF meta[f].none THEN EmptyMeta ELSE meta[f].val

\* Variant: a missing blob reads as the empty text.
get_file_version_content_or_empty(f, version_id) ==
    IF version_id \in DOMAIN blobs[f] THEN Some(blobs[f][version_id])
    ELSE Some(Text(<<>>, FALSE))


\* get_file_version_content: None stands for Err(NotFound).
get_file_version_content(f, version_id) ==
    IF version_id \in DOMAIN blobs[f] THEN Some(blobs[f][version_id]) ELSE None

\* Variant: the document keeps the sentinel's head.
InitialMeta_initial_head(version_id, user, content, t) ==
    [current_version |-> INITIAL,
     versions |-> Put(EmptyMap, version_id, FileVersion(user, "Initial version", content, t)),
     branches |-> EmptyMap,
     active_editors |-> <<>>]

\* The document initialize_file_versioning builds: one version, no branch, no editor.
InitialMeta(version_id, user, content, t) ==
    [current_version |-> version_id,
     versions |-> Put(EmptyMap, version_id, FileVersion(user, "Initial version", content, t)),
     branches |-> EmptyMap,
     active_editors |-> <<>>]

\* Variant: the version is inserted, the head is not moved.
WithNewHead_keeps_head(metadata, version_id, version) ==
    [metadata EXCEPT !.versions = Put(metadata.versions, version_id, version)]

\* metadata.versions.insert(version_id, version); metadata.current_version = version_id
WithNewHead(metadata, version_id, version) ==
    [metadata EXCEPT !.versions = Put(metadata.versions, version_id, version),
                     !.current_version = version_id]

\* Variant: nothing is removed.
Retain_keeps_all(editors, user) == editors


\* active_editors.retain(|e| e.user_id != user_id)
Retain(editors, user) == SelectSeq(editors, LAMBDA e : e.user_id # user)

(***************************************************************************)
(* Requests.  A request passes the middlewares in the order in which the   *)
(* application runs them, then its handler; every access to the registry   *)
(* (under its mutex) and every read or write of a file is one step.        *)
(***************************************************************************)
\* main.rs registers .wrap(Auth) and then .wrap(FileLockMiddleware); the
\* middleware registered last is the outermost one and runs first.
MiddlewareChain == <<"FileLockMiddleware", "Auth">>

StageAfter(stage) ==
    LET i == CHOOSE k \in 1..Len(MiddlewareChain) : MiddlewareChain[k] = stage
    IN  IF i < Len(MiddlewareChain) THEN MiddlewareChain[i + 1] ELSE "handler"

NoText == Text(<<>>, FALSE)
NoResp == [http |-> 0, status |-> "none", new_version |-> None, conflicts |-> <<>>]
Resp(http, status, new_version, conflicts) ==
    [http |-> http, status |-> status, new_version |-> new_version, conflicts |-> conflicts]
Failed == Resp(500, "error", None, <<>>)

Idle ==
    [kind |-> "none", user |-> "", file |-> "", pc |-> "idle", ctx |-> None,
     content |-> None, base |-> INITIAL,
     sawLock |-> None, head |-> INITIAL, metadata |-> EmptyMeta,
     path |-> "", towrite |-> NoText, version_id |-> INITIAL,
     committed |-> None, wrote |-> FALSE, resp |-> NoResp,
     source_branch |-> "", target_branch |-> "", marked_content |-> NoText]

\* The texts a client submits.
Contents == {Text(<<"a", "b", "c">>, FALSE), Text(<<"x", "b", "c">>, FALSE),
             Text(<<"a", "b", "z">>, FALSE)}

\* A worker is free before its first request and once it has responded.
Free(s) == reqs[s].pc \in {"idle", "done"}

\* A request arrives on the first free worker.  Its user is the subject of its
\* token; base is "initial" or any id handed out so far.
Arrive(s, kind, user, f, content, base) ==
    /\ Free(s)
    /\ \A w \in Slots : w < s => ~Free(w)
    /\ arrived < MaxRequests
    /\ arrived' = arrived + 1
    /\ kind \in {"save", "resolve"} => ~content.none
    /\ kind \in {"edit", "release", "lock", "unlock"} => (content.none /\ base = INITIAL)
    /\ reqs' = [reqs EXCEPT ![s] =
            [Idle EXCEPT !.kind = kind, !.user = user, !.file = f,
                         !.pc = MiddlewareChain[1], !.content = content, !.base = base]]
    /\ UNCHANGED <<now, locks, lockLog, lockGrant, meta, blobs, nextId, mIn, mOut>>

\* The response; the handler's locals are dropped with its stack frame.
Finish(s, resp) ==
    [reqs EXCEPT ![s].pc = "done", ![s].resp = resp,
                 ![s].metadata = EmptyMeta, ![s].towrite = NoText]

\* FileLockMiddlewareService::call.  Without a UserContext in the request
\* extensions it only cleans up; with one it gates /save and /edit, takes the
\* lock for /edit and releases it for /release.
FileLockMiddlewareCall(s) ==
    LET r == reqs[s]
        f == r.file
        cleaned == cleanup_expired_locks(locks, now).locks
        holder == is_file_locked(cleaned, f, now)
        gated == r.kind \in {"save", "edit"} /\ ~r.ctx.none
    IN  /\ r.pc = "FileLockMiddleware"
        /\ IF gated /\ LockGate(cleaned, f, r.ctx, now) = "reject"
           THEN /\ locks' = cleaned
                /\ reqs' = [Finish(s, Resp(409, "locked", None, <<>>)) EXCEPT ![s].sawLock = holder]
           ELSE /\ locks' =
                     IF gated /\ r.kind = "edit" /\ holder.none
                     THEN try_acquire_lock(cleaned, f, r.ctx.val, LOCK_SECS, now).locks
                     ELSE IF r.kind = "release" /\ ~r.ctx.none
                     THEN release_lock(cleaned, f, r.ctx.val).locks
                     ELSE cleaned
                /\ reqs' = [reqs EXCEPT ![s].pc = StageAfter("FileLockMiddleware"),
                                        ![s].sawLock = holder]
        /\ UNCHANGED <<now, lockLog, lockGrant, meta, blobs, nextId, arrived, mIn, mOut>>

\* AuthMiddleware::call: inserts the UserContext of the token's user.
AuthCall(s) ==
    /\ reqs[s].pc = "Auth"
    /\ reqs' = [reqs EXCEPT ![s].ctx = Some(reqs[s].user), ![s].pc = StageAfter("Auth")]
    /\ UNCHANGED <<now, locks, lockLog, lockGrant, meta, blobs, nextId, arrived, mIn, mOut>>

\* get_user_id_from_request, then the first file access of the handler.
HandlerEntry(r) == r.pc = "handler" /\ ~r.ctx.none

(***************************************************************************)
(* POST /files/{file_id}/save: save_with_conflict_detection                *)
(***************************************************************************)
\* Variant: a base_version of "initial" is checked against the head as well.
VersionConflict_initial_too(base_version, metadata) ==
    base_version # metadata.current_version

\* The test in front of the conflict path.
VersionConflict(base_version, metadata) ==
    base_version # metadata.current_version /\ base_version # INITIAL

\* Loads the metadata and picks the path: first save, conflict check, clean save.
SaveLoad(s) ==
    LET r == reqs[s]
        metadata == load_versioned_file_metadata(r.file)
        path == IF DOMAIN metadata.versions = {} THEN "init"
                ELSE IF VersionConflict(r.base, metadata) THEN "merge"
                ELSE "clean"
    IN  /\ HandlerEntry(r) /\ r.kind = "save"
        /\ reqs' = [reqs EXCEPT ![s].head = metadata.current_version, ![s].metadata = metadata,
                                ![s].path = path, ![s].towrite = r.content.val,
                                ![s].pc = IF path = "init" THEN "init_meta"
                                          ELSE IF path = "merge" THEN "merge_read"
                                          ELSE "write_blob"]
        /\ UNCHANGED <<now, locks, lockLog, lockGrant, meta, blobs, nextId, arrived, mIn, mOut>>

\* initialize_file_versioning, first half: a fresh id and the metadata write.
InitMeta(s, ok) ==
    LET r == reqs[s]
        version_id == nextId + 1
        metadata == InitialMeta(version_id, r.ctx.val, r.towrite, now)
    IN  /\ r.pc = "init_meta"
        /\ nextId < MaxIds
        /\ nextId' = version_id
        /\ IF ok
           THEN /\ meta' = [meta EXCEPT ![r.file] = Some(metadata)]
                /\ reqs' = [reqs EXCEPT ![s].metadata = metadata, ![s].version_id = version_id,
                                        ![s].committed = Some(version_id), ![s].wrote = TRUE,
                                        ![s].pc = "init_blob"]
           ELSE /\ meta' = meta
                /\ reqs' = Finish(s, Failed)
        /\ UNCHANGED <<now, locks, lockLog, lockGrant, blobs, arrived, mIn, mOut>>

\* initialize_file_versioning, second half: the blob write; then the response.
InitBlob(s, ok) ==
    LET r == reqs[s]
    IN  /\ r.pc = "init_blob"
        /\ IF ok
           THEN /\ blobs' = [blobs EXCEPT ![r.file] = Put(@, r.version_id, r.towrite)]
                /\ reqs' = Finish(s, Resp(200, "saved", Some(r.metadata.current_version), <<>>))
           ELSE /\ blobs' = blobs
                /\ reqs' = Finish(s, Failed)
        /\ UNCHANGED <<now, locks, lockLog, lockGrant, meta, nextId, arrived, mIn, mOut>>

\* Variant: the response carries the request's base_version.
ConflictResponse_base(r, diff) ==
    Resp(409, "conflict", Some(r.base), diff.conflicts)

\* The 409 response of the conflict path: the conflicts found and the head
\* version of the metadata the handler loaded.
ConflictResponse(r, diff) ==
    Resp(409, "conflict", Some(r.metadata.current_version), diff.conflicts)

\* The conflict path: reads the base and the head, and tries the merge.
MergeRead(s) ==
    LET r == reqs[s]
        base_content == get_file_version_content(r.file, r.base)
        current_content == get_file_version_content(r.file, r.metadata.current_version)
        merged == attempt_auto_merge(base_content.val, r.content.val, current_content.val)
        diff == compare_versions(base_content.val, r.content.val, current_content.val)
    IN  /\ r.pc = "merge_read"
        /\ reqs' =
             IF base_content.none \/ current_content.none THEN Finish(s, Failed)
             ELSE IF ~merged.none
             THEN [reqs EXCEPT ![s].towrite = merged.val, ![s].pc = "write_blob"]
             ELSE Finish(s, ConflictResponse(r, diff))
        /\ UNCHANGED <<now, locks, lockLog, lockGrant, meta, blobs, nextId, arrived, mIn, mOut>>

\* A fresh version id and save_file_version, of the merged or the submitted text.
SaveWriteBlob(s, ok) ==
    LET r == reqs[s]
        version_id == nextId + 1
    IN  /\ r.pc = "write_blob" /\ r.kind = "save"
        /\ nextId < MaxIds
        /\ nextId' = version_id
        /\ IF ok
           THEN /\ blobs' = [blobs EXCEPT ![r.file] = Put(@, version_id, r.towrite)]
                /\ reqs' = [reqs EXCEPT ![s].version_id = version_id, ![s].wrote = TRUE,
                                        ![s].pc = "write_meta"]
           ELSE /\ blobs' = blobs
                /\ reqs' = Finish(s, Failed)
        /\ UNCHANGED <<now, locks, lockLog, lockGrant, meta, arrived, mIn, mOut>>

\* The loaded metadata with the new head, written back; on the clean path the
\* copy to the non-versioned storage follows (mirror: whether it succeeds).
SaveWriteMeta(s, ok, mirror) ==
    LET r == reqs[s]
        message == IF r.path = "merge" THEN "Auto-merged changes" ELSE "message"
        metadata == WithNewHead(r.metadata, r.version_id,
                                FileVersion(r.ctx.val, message, r.towrite, now))
        status == IF r.path = "merge" THEN "auto_merged" ELSE "saved"
    IN  /\ r.pc = "write_meta" /\ r.kind = "save"
        /\ r.path = "merge" => mirror
        /\ ~ok => mirror
        /\ IF ok
           THEN /\ meta' = [meta EXCEPT ![r.file] = Some(metadata)]
                /\ reqs' = [(IF mirror
                             THEN Finish(s, Resp(200, status, Some(r.version_id), <<>>))
                             ELSE Finish(s, Failed))
                            EXCEPT ![s].committed = Some(r.version_id)]
           ELSE /\ meta' = meta
                /\ reqs' = Finish(s, Failed)
        /\ UNCHANGED <<now, locks, lockLog, lockGrant, blobs, nextId, arrived, mIn, mOut>>

(***************************************************************************)
(* POST /files/{file_id}/edit and /release: start_editing, stop_editing    *)
(***************************************************************************)
\* register_active_editor and unregister_active_editor: the load ...
EditorLoad(s) ==
    LET r == reqs[s]
        metadata == load_versioned_file_metadata(r.file)
    IN  /\ HandlerEntry(r) /\ r.kind \in {"edit", "release"}
        /\ reqs' = [reqs EXCEPT ![s].head = metadata.current_version, ![s].metadata = metadata,
                                ![s].pc = "editor_write"]
        /\ UNCHANGED <<now, locks, lockLog, lockGrant, meta, blobs, nextId, arrived, mIn, mOut>>

\* ... and the write of the changed roster.
EditorWrite(s, ok) ==
    LET r == reqs[s]
        editors == IF r.kind = "edit"
                   THEN Append(Retain(r.metadata.active_editors, r.ctx.val),
                               ActiveEditor(r.ctx.val, now))
                   ELSE Retain(r.metadata.active_editors, r.ctx.val)
        metadata == [r.metadata EXCEPT !.active_editors = editors]
    IN  /\ r.pc = "editor_write"
        /\ IF ok
           THEN /\ meta' = [meta EXCEPT ![r.file] = Some(metadata)]
                /\ reqs' = [Finish(s, Resp(200, "editors", None, <<>>))
                            EXCEPT ![s].wrote = TRUE]
           ELSE /\ meta' = meta
                /\ reqs' = Finish(s, Failed)
        /\ UNCHANGED <<now, locks, lockLog, lockGrant, blobs, nextId, arrived, mIn, mOut>>

(***************************************************************************)
(* POST /files/{file_id}/branches: version_storage::create_branch          *)
(***************************************************************************)
\* Variant: every base_version passes.
BaseVersionFound_any(metadata, base_version) == TRUE

\* The validation of create_branch:
\* metadata.versions.contains_key(base_version) || base_version == "initial"
BaseVersionFound(metadata, base_version) ==
    base_version \in DOMAIN metadata.versions \/ base_version = INITIAL

\* create_branch: the load and the validation of the base version.
BranchLoad(s) ==
    LET r == reqs[s]
        metadata == load_versioned_file_metadata(r.file)
    IN  /\ HandlerEntry(r) /\ r.kind = "branch"
        /\ reqs' =
             IF ~BaseVersionFound(metadata, r.base)
             THEN Finish(s, Resp(400, "error", None, <<>>))
             ELSE [reqs EXCEPT ![s].head = metadata.current_version, ![s].metadata = metadata,
                               ![s].pc = IF r.content.none THEN "branch_meta" ELSE "branch_blob"]
        /\ UNCHANGED <<now, locks, lockLog, lockGrant, meta, blobs, nextId, arrived, mIn, mOut>>

\* With initial content: the branch id, the version id and save_file_version.
BranchBlob(s, ok) ==
    LET r == reqs[s]
        branch_id == nextId + 1
        version_id == nextId + 2
        version == FileVersion(r.ctx.val, "Created branch", r.content.val, now)
    IN  /\ r.pc = "branch_blob"
        /\ nextId + 1 < MaxIds
        /\ nextId' = version_id
        /\ IF ok
           THEN /\ blobs' = [blobs EXCEPT ![r.file] = Put(@, version_id, r.content.val)]
                /\ reqs' = [reqs EXCEPT
                        ![s].metadata.versions = Put(@, version_id, version),
                        ![s].metadata.branches =
                            Put(@, branch_id, FileBranch("feat", r.ctx.val, r.base, version_id)),
                        ![s].version_id = version_id, ![s].wrote = TRUE,
                        ![s].pc = "branch_write"]
           ELSE /\ blobs' = blobs
                /\ reqs' = Finish(s, Failed)
        /\ UNCHANGED <<now, locks, lockLog, lockGrant, meta, arrived, mIn, mOut>>

\* Without content: the branch id; the branch head is the base version.
BranchNoContent(s) ==
    LET r == reqs[s]
        branch_id == nextId + 1
    IN  /\ r.pc = "branch_meta"
        /\ nextId < MaxIds
        /\ nextId' = branch_id
        /\ reqs' = [reqs EXCEPT
                ![s].metadata.branches =
                    Put(@, branch_id, FileBranch("feat", r.ctx.val, r.base, r.base)),
                ![s].pc = "branch_write"]
        /\ UNCHANGED <<now, locks, lockLog, lockGrant, meta, blobs, arrived, mIn, mOut>>

BranchWrite(s, ok) ==
    LET r == reqs[s]
    IN  /\ r.pc = "branch_write"
        /\ IF ok
           THEN /\ meta' = [meta EXCEPT ![r.file] = Some(r.metadata)]
                /\ reqs' = [Finish(s, Resp(200, "branch", None, <<>>)) EXCEPT ![s].wrote = TRUE]
           ELSE /\ meta' = meta
                /\ reqs' = Finish(s, Failed)
        /\ UNCHANGED <<now, locks, lockLog, lockGrant, blobs, nextId, arrived, mIn, mOut>>

(***************************************************************************)
(* POST /files/{file_id}/merge: merge_branches                             *)
(***************************************************************************)
\* A merge request arrives on the first free worker.
ArriveMerge(s, user, f, source_branch, target_branch) ==
    /\ Free(s)
    /\ \A w \in Slots : w < s => ~Free(w)
    /\ arrived < MaxRequests
    /\ arrived' = arrived + 1
    /\ reqs' = [reqs EXCEPT ![s] =
            [Idle EXCEPT !.kind = "merge", !.user = user, !.file = f,
                         !.pc = MiddlewareChain[1],
                         !.source_branch = source_branch, !.target_branch = target_branch]]
    /\ UNCHANGED <<now, locks, lockLog, lockGrant, meta, blobs, nextId, mIn, mOut>>

\* The metadata load and the lookups of the source and the target branch;
\* head keeps the target's version.
MergeBranchesLoad(s) ==
    LET r == reqs[s]
        metadata == load_versioned_file_metadata(r.file)
        main == r.target_branch \in {"main", "master"}
        found == /\ r.source_branch \in DOMAIN metadata.branches
                 /\ main \/ r.target_branch \in DOMAIN metadata.branches
        target_version == IF main THEN metadata.current_version
                          ELSE metadata.branches[r.target_branch].head_version
    IN  /\ HandlerEntry(r) /\ r.kind = "merge"
        /\ reqs' = IF ~found
                   THEN Finish(s, Resp(400, "error", None, <<>>))
                   ELSE [reqs EXCEPT ![s].metadata = metadata, ![s].head = target_version,
                                     ![s].pc = "merge_branches_read"]
        /\ UNCHANGED <<now, locks, lockLog, lockGrant, meta, blobs, nextId, arrived, mIn, mOut>>

\* Variant: the merged version always becomes the file's current_version.
MergedMetadata_always_main(metadata, target_branch, version_id, version) ==
    WithNewHead(metadata, version_id, version)

\* The document a successful merge writes: the new version, and the pointer of
\* the target.
MergedMetadata(metadata, target_branch, version_id, version) ==
    IF target_branch \in {"main", "master"}
    THEN WithNewHead(metadata, version_id, version)
    ELSE [metadata EXCEPT !.versions = Put(metadata.versions, version_id, version),
                          !.branches[target_branch].head_version = version_id]

\* The reads of the source head, the target and the source's base, and the merge
\* attempt: on None the 409 with the conflicts and the marked text.
MergeBranchesRead(s) ==
    LET r == reqs[s]
        source == r.metadata.branches[r.source_branch]
        source_content == get_file_version_content(r.file, source.head_version)
        target_content == get_file_version_content(r.file, r.head)
        base_content == get_file_version_content(r.file, source.base_version)
        merged_content == attempt_auto_merge(base_content.val, source_content.val,
                                             target_content.val)
        diff == compare_versions(base_content.val, source_content.val, target_content.val)
        marked_content == create_marked_merge(base_content.val, source_content.val,
                                              target_content.val)
    IN  /\ r.pc = "merge_branches_read"
        /\ reqs' =
             IF source_content.none \/ target_content.none \/ base_content.none
             THEN Finish(s, Resp(404, "error", None, <<>>))
             ELSE IF merged_content.none
             THEN [Finish(s, Resp(409, "conflict", None, diff.conflicts))
                   EXCEPT ![s].marked_content = marked_content]
             ELSE [reqs EXCEPT ![s].towrite = merged_content.val,
                               ![s].pc = "merge_branches_blob"]
        /\ UNCHANGED <<now, locks, lockLog, lockGrant, meta, blobs, nextId, arrived, mIn, mOut>>

\* The new version id and save_file_version of the merged content.
MergeBranchesBlob(s, ok) ==
    LET r == reqs[s]
        version_id == nextId + 1
    IN  /\ r.pc = "merge_branches_blob"
        /\ nextId < MaxMergeIds
        /\ nextId' = version_id
        /\ IF ok
           THEN /\ blobs' = [blobs EXCEPT ![r.file] = Put(@, version_id, r.towrite)]
                /\ reqs' = [reqs EXCEPT ![s].version_id = version_id, ![s].wrote = TRUE,
                                        ![s].pc = "merge_branches_meta"]
           ELSE /\ blobs' = blobs
                /\ reqs' = Finish(s, Failed)
        /\ UNCHANGED <<now, locks, lockLog, lockGrant, meta, arrived, mIn, mOut>>

\* The loaded metadata with the new version and the advanced pointer, written
\* back; then the response.
MergeBranchesMeta(s, ok) ==
    LET r == reqs[s]
        version == FileVersion(r.ctx.val, "Merged branch", r.towrite, now)
        updated_metadata == MergedMetadata(r.metadata, r.target_branch, r.version_id, version)
    IN  /\ r.pc = "merge_branches_meta"
        /\ IF ok
           THEN /\ meta' = [meta EXCEPT ![r.file] = Some(updated_metadata)]
                /\ reqs' = [Finish(s, Resp(200, "merged", Some(r.version_id), <<>>))
                            EXCEPT ![s].committed = Some(r.version_id)]
           ELSE /\ meta' = meta
                /\ reqs' = Finish(s, Failed)
        /\ UNCHANGED <<now, locks, lockLog, lockGrant, blobs, nextId, arrived, mIn, mOut>>


(***************************************************************************)
(* POST /files/{file_id}/resolve-conflicts: resolve_conflicts              *)
(***************************************************************************)
\* The stripped text, the new version id and the metadata load.  The
\* request's base_version and current_version are not read.
ResolveLoad(s) ==
    LET r == reqs[s]
        resolved_content == extract_resolved_content(r.content.val)
        version_id == nextId + 1
        metadata == load_versioned_file_metadata(r.file)
    IN  /\ HandlerEntry(r) /\ r.kind = "resolve"
        /\ nextId < MaxIds
        /\ nextId' = version_id
        /\ reqs' = [reqs EXCEPT ![s].head = metadata.current_version, ![s].metadata = metadata,
                                ![s].towrite = resolved_content, ![s].version_id = version_id,
                                ![s].pc = "resolve_blob"]
        /\ UNCHANGED <<now, locks, lockLog, lockGrant, meta, blobs, arrived, mIn, mOut>>

\* save_file_version of the resolved text.
ResolveBlob(s, ok) ==
    LET r == reqs[s]
    IN  /\ r.pc = "resolve_blob"
        /\ IF ok
           THEN /\ blobs' = [blobs EXCEPT ![r.file] = Put(@, r.version_id, r.towrite)]
                /\ reqs' = [reqs EXCEPT ![s].wrote = TRUE, ![s].pc = "resolve_meta"]
           ELSE /\ blobs' = blobs
                /\ reqs' = Finish(s, Failed)
        /\ UNCHANGED <<now, locks, lockLog, lockGrant, meta, nextId, arrived, mIn, mOut>>

\* The loaded metadata with the new head, written back; then the copy to the
\* non-versioned storage (mirror: whether it succeeds) and the response.
ResolveMeta(s, ok, mirror) ==
    LET r == reqs[s]
        metadata == WithNewHead(r.metadata, r.version_id,
                                FileVersion(r.ctx.val, "message", r.towrite, now))
    IN  /\ r.pc = "resolve_meta"
        /\ ~ok => mirror
        /\ IF ok
           THEN /\ meta' = [meta EXCEPT ![r.file] = Some(metadata)]
                /\ reqs' = [(IF mirror
                             THEN Finish(s, Resp(200, "saved", Some(r.version_id), <<>>))
                             ELSE Finish(s, Failed))
                            EXCEPT ![s].committed = Some(r.version_id)]
           ELSE /\ meta' = meta
                /\ reqs' = Finish(s, Failed)
        /\ UNCHANGED <<now, locks, lockLog, lockGrant, blobs, nextId, arrived, mIn, mOut>>

HandleResolve(s, io) ==
    \/ ResolveLoad(s)
    \/ \E ok \in io : ResolveBlob(s, ok)
    \/ \E ok \in io, mirror \in io : ResolveMeta(s, ok, mirror)


(***************************************************************************)
(* POST and DELETE /files/{file_id}/lock: lock_routes                      *)
(***************************************************************************)
\* acquire_lock: try_acquire_lock with the 300 s duration.
LockRoute(s) ==
    LET r == reqs[s]
        got == try_acquire_lock(locks, r.file, r.ctx.val, LOCK_SECS, now)
    IN  /\ HandlerEntry(r) /\ r.kind = "lock"
        /\ locks' = got.locks
        /\ reqs' = IF got.ok THEN Finish(s, Resp(200, "locked", None, <<>>))
                   ELSE [reqs EXCEPT ![s].pc = "lock_holder"]
        /\ UNCHANGED <<now, lockLog, lockGrant, meta, blobs, nextId, arrived, mIn, mOut>>

\* release_lock.
UnlockRoute(s) ==
    LET r == reqs[s]
        got == release_lock(locks, r.file, r.ctx.val)
    IN  /\ HandlerEntry(r) /\ r.kind = "unlock"
        /\ locks' = got.locks
        /\ reqs' = IF got.ok THEN Finish(s, Resp(200, "released", None, <<>>))
                   ELSE [reqs EXCEPT ![s].pc = "lock_holder"]
        /\ UNCHANGED <<now, lockLog, lockGrant, meta, blobs, nextId, arrived, mIn, mOut>>

\* After a refusal both routes ask is_file_locked who holds the lock.
LockHolder(s) ==
    LET r == reqs[s]
        holder == is_file_locked(locks, r.file, now)
    IN  /\ r.pc = "lock_holder"
        /\ reqs' =
             IF r.kind = "lock"
             THEN Finish(s, Resp(IF holder.none THEN 500 ELSE 409, "error", None, <<>>))
             ELSE Finish(s, Resp(IF ~holder.none /\ holder.val # r.ctx.val THEN 403 ELSE 404,
                                 "error", None, <<>>))
        /\ UNCHANGED <<now, locks, lockLog, lockGrant, meta, blobs, nextId, arrived, mIn, mOut>>

\* The steps that carry a request from its arrival to its response; io is the
\* set of outcomes a file write can have (TRUE: written, FALSE: an I/O error).
Handle(s, io) ==
    \/ FileLockMiddlewareCall(s)
    \/ AuthCall(s)
    \/ SaveLoad(s)
    \/ \E ok \in io : InitMeta(s, ok)
    \/ \E ok \in io : InitBlob(s, ok)
    \/ MergeRead(s)
    \/ \E ok \in io : SaveWriteBlob(s, ok)
    \/ \E ok \in io, mirror \in io : SaveWriteMeta(s, ok, mirror)

HandleEditors(s, io) ==
    \/ EditorLoad(s)
    \/ \E ok \in io : EditorWrite(s, ok)

HandleBranch(s, io) ==
    \/ BranchLoad(s)
    \/ \E ok \in io : BranchBlob(s, ok)
    \/ BranchNoContent(s)
    \/ \E ok \in io : BranchWrite(s, ok)

HandleLock(s) ==
    \/ LockRoute(s)
    \/ UnlockRoute(s)
    \/ LockHolder(s)

\* Version control: saves and editing sessions by two users on two workers,
\* the file system working.
Next ==
    \/ \E s \in Slots, kind \in {"save", "edit", "release"}, user \in Users,
          f \in Files, content \in {None} \cup {Some(c) : c \in Contents},
          base \in 0..nextId :
            Arrive(s, kind, user, f, content, base)
    \/ \E s \in Slots : Handle(s, {TRUE})
    \/ \E s \in Slots : HandleEditors(s, {TRUE})

\* Branch creation next to saves.
NextBranch ==
    \/ \E s \in Slots, kind \in {"save", "branch"}, user \in Users, f \in Files,
          content \in {None, Some(Text(<<"a">>, FALSE))}, base \in 0..nextId :
            Arrive(s, kind, user, f, content, base)
    \/ \E s \in Slots : Handle(s, {TRUE})
    \/ \E s \in Slots : HandleBranch(s, {TRUE})

\* Locking in front of the handlers: the lock routes, saves and editing
\* sessions, with time passing.
NextGate ==
    \/ Tick
    \/ \E s \in Slots, kind \in {"save", "edit", "release", "lock", "unlock"},
          user \in Users, f \in Files, content \in {None, Some(Text(<<"a">>, FALSE))},
          base \in 0..nextId :
            Arrive(s, kind, user, f, content, base)
    \/ \E s \in Slots : Handle(s, {TRUE})
    \/ \E s \in Slots : HandleEditors(s, {TRUE})
    \/ \E s \in Slots : HandleLock(s)

\* Saves whose file writes may fail.
NextFaults ==
    \/ \E s \in Slots, user \in Users, f \in Files,
          content \in {Some(Text(<<"a">>, FALSE)), Some(Text(<<"b">>, FALSE))},
          base \in 0..nextId :
            Arrive(s, "save", user, f, content, base)
    \/ \E s \in Slots : Handle(s, BOOLEAN)


\* Merges of branches, two at a time, all asked for by one user: the handler
\* uses the user only as the author of the merged version.  No branch U exists.
NextMergeRoute ==
    \/ \E s \in Slots, user \in {"B"}, f \in Files,
          source_branch \in {"S", "T", "U"}, target_branch \in {"main", "master", "T", "U"} :
            ArriveMerge(s, user, f, source_branch, target_branch)
    \/ \E s \in Slots : FileLockMiddlewareCall(s)
    \/ \E s \in Slots : AuthCall(s)
    \/ \E s \in Slots : MergeBranchesLoad(s)
    \/ \E s \in Slots : MergeBranchesRead(s)
    \/ \E s \in Slots : MergeBranchesBlob(s, TRUE)
    \/ \E s \in Slots : MergeBranchesMeta(s, TRUE)

\* A text with one conflict block, as a client sends it back for resolution.
MarkedText == Text(<<"<<<<<<< CURRENT CHANGES", "b", "=======", "a", ">>>>>>> YOUR CHANGES">>,
                   FALSE)

\* Saves and conflict resolutions.
NextResolve ==
    \/ \E s \in Slots, kind \in {"save", "resolve"}, user \in Users, f \in Files,
          content \in {Some(Text(<<"b">>, FALSE)), Some(MarkedText)}, base \in 0..nextId :
            Arrive(s, kind, user, f, content, base)
    \/ \E s \in Slots : Handle(s, {TRUE})
    \/ \E s \in Slots : HandleResolve(s, {TRUE})


\* Writers next to the lock routes: saves and resolutions while locks are taken
\* and released.
NextLockedWriters ==
    \/ \E s \in Slots, kind \in {"lock", "unlock", "save", "resolve"}, user \in Users,
          f \in Files, content \in {None, Some(Text(<<"a">>, FALSE))}, base \in 0..nextId :
            Arrive(s, kind, user, f, content, base)
    \/ \E s \in Slots : Handle(s, {TRUE})
    \/ \E s \in Slots : HandleResolve(s, {TRUE})
    \/ \E s \in Slots : HandleLock(s)

(***************************************************************************)
(* Initial states and specifications.                                      *)
(***************************************************************************)
InitRest ==
    /\ now = 0
    /\ locks = [f \in Files |-> None]
    /\ lockLog = [f \in Files |-> None]
    /\ lockGrant = [f \in Files |-> NoGrants]
    /\ meta = [f \in Files |-> None]
    /\ blobs = [f \in Files |-> EmptyMap]
    /\ nextId = 0
    /\ reqs = [s \in Slots |-> Idle]
    /\ arrived = 0

Init ==
    /\ mIn = NoInput
    /\ mOut = NoOutput
    /\ InitRest

Spec == Init /\ [][Next]_vars

SpecBranch == Init /\ [][NextBranch]_vars

SpecGate == Init /\ [][NextGate]_vars

SpecFaults == Init /\ [][NextFaults]_vars

SpecLockedWriters == Init /\ [][NextLockedWriters]_vars


\* A file after four requests: a first save of "a b c" (version 1), a branch S
\* created from version 1 with content (version 2), a branch T created from
\* version 1 without content, and a save on main (version 3).
InitMergeRoute ==
    /\ mIn = NoInput
    /\ mOut = NoOutput
    /\ now = 0
    /\ locks = [f \in Files |-> None]
    /\ lockLog = [f \in Files |-> None]
    /\ lockGrant = [f \in Files |-> NoGrants]
    /\ reqs = [s \in Slots |-> Idle]
    /\ arrived = 0
    /\ nextId = 3
    /\ \E c2 \in Contents, c3 \in Contents :
        LET c1 == Text(<<"a", "b", "c">>, FALSE)
            saved == WithNewHead(InitialMeta(1, "A", c1, 0), 3, FileVersion("A", "message", c3, 0))
            metadata ==
                [saved EXCEPT
                    !.versions = Put(@, 2, FileVersion("B", "Created branch", c2, 0)),
                    !.branches = Put(Put(@, "S", FileBranch("feat", "B", 1, 2)),
                                     "T", FileBranch("fix", "B", 1, 1))]
        IN  /\ meta = [f \in Files |-> Some(metadata)]
            /\ blobs = [f \in Files |-> Put(Put(Put(EmptyMap, 1, c1), 2, c2), 3, c3)]

SpecMergeRoute == InitMergeRoute /\ [][NextMergeRoute]_vars

SpecResolve == Init /\ [][NextResolve]_vars


InitLock ==
    /\ mIn = NoInput
    /\ mOut = NoOutput
    /\ InitRest

SpecLock == InitLock /\ [][NextLock]_vars

(***************************************************************************)
(* Version control properties.                                             *)
(***************************************************************************)
\* C1: for every file whose metadata document has been persisted,
\* current_version is a key of the versions map, in every reachable state.
C1_CurrentVersionIsKey ==
    \A f \in Files :
        ~meta[f].none => meta[f].val.current_version \in DOMAIN meta[f].val.versions

\* C2: of two saves on the same file that both found their base_version to be
\* the head version (so that each loaded the metadata before the other wrote
\* it), at most one answers saved.
C2_OneOfTwoConcurrentSavesSaved ==
    \A s1, s2 \in Slots :
        (/\ s1 # s2
         /\ reqs[s1].kind = "save" /\ reqs[s2].kind = "save"
         /\ reqs[s1].file = reqs[s2].file
         /\ reqs[s1].pc = "done" /\ reqs[s2].pc = "done"
         /\ reqs[s1].base = reqs[s1].head /\ reqs[s2].base = reqs[s2].head
         /\ reqs[s1].base = reqs[s2].base /\ reqs[s1].base # INITIAL)
        => ~(reqs[s1].resp.status = "saved" /\ reqs[s2].resp.status = "saved")

C4_OtherUsersSaveRejected ==
    \A s \in Slots :
        (reqs[s].kind = "save" /\ reqs[s].pc # "FileLockMiddleware")
            => IF ~reqs[s].sawLock.none /\ reqs[s].sawLock.val # reqs[s].user
               THEN /\ reqs[s].pc = "done"
                    /\ reqs[s].resp.http = 409 /\ reqs[s].resp.status = "locked"
                    /\ ~reqs[s].wrote
               ELSE reqs[s].resp.status # "locked"

(***************************************************************************)
(* Lock registry properties.                                               *)
(***************************************************************************)
\* The registry as it was just before the logged call on f.
Before(f) == [g \in Files |-> lockLog[f].val.before]

\* C5: while user u holds an unexpired lock on f, try_acquire(f, v, d) by any
\* other user v returns false and leaves the entry (holder, acquired_at,
\* expires_at) as it was.
C5_OtherUserRefused ==
    \A f \in Files :
        (/\ ~lockLog[f].none
         /\ lockLog[f].val.op = "try_acquire"
         /\ ~is_file_locked(Before(f), f, lockLog[f].val.at).none
         /\ is_file_locked(Before(f), f, lockLog[f].val.at).val # lockLog[f].val.user)
        => (/\ ~lockLog[f].val.ok
            /\ lockLog[f].val.after = lockLog[f].val.before)

C5_Witness ==
    \E f \in Files :
        /\ ~lockLog[f].none
        /\ lockLog[f].val.op = "try_acquire"
        /\ ~lockLog[f].val.ok
        /\ ~locks[f].none
        /\ locks[f].val.user_id # lockLog[f].val.user
        /\ locks[f].val.expires_at > now

\* C6 as stated: after a try_acquire(f, u, d) that returned true at t_a,
\* is_locked(f) returns u at every time in [t_a, t_a + d) unless release(f, u)
\* occurred, whatever other try_acquire calls (by u too) and cleanups happen.
C6_HeldForDuration ==
    \A f \in Files, u \in Users :
        (~lockGrant[f][u].first.none /\ now < lockGrant[f][u].first.val.until)
        => is_file_locked(locks, f, now) = Some(u)

\* C6 as amended: after a try_acquire(f, u, d) that returned true at t_a,
\* is_locked(f) returns u at every time in [t_a, t_a + d) unless release(f, u)
\* or a later try_acquire(f, u, d') by u itself occurred in between, whatever
\* try_acquire calls by other users and cleanups happen.
C6_HeldUntilOwnNextCall ==
    \A f \in Files, u \in Users :
        (~lockGrant[f][u].latest.none /\ now < lockGrant[f][u].latest.val.until)
        => is_file_locked(locks, f, now) = Some(u)

\* Inside the interval, after time has passed and another user was refused.
C6_Witness ==
    \E f \in Files, u \in Users :
        /\ ~lockGrant[f][u].latest.none
        /\ lockGrant[f][u].latest.val.at < now
        /\ now < lockGrant[f][u].latest.val.until
        /\ ~lockLog[f].none
        /\ lockLog[f].val.op = "try_acquire"
        /\ lockLog[f].val.user # u
        /\ lockLog[f].val.at > lockGrant[f][u].latest.val.at

\* C7: a lock whose expires_at has passed blocks nobody, even while its entry is
\* still in the map: is_locked returns none, try_acquire by any other user
\* returns true and makes that user the holder, and the lock gate lets a save of
\* another user through.
C7_ExpiredLockBlocksNobody ==
    \A f \in Files :
        (~locks[f].none /\ locks[f].val.expires_at <= now)
        => /\ is_file_locked(locks, f, now) = None
           /\ \A v \in Users \ {locks[f].val.user_id} :
                /\ \A d \in Durations :
                     LET r == try_acquire_lock(locks, f, v, d, now)
                     IN  /\ r.ok
                         /\ r.locks[f] = Some(FileLock(v, now, now + d, d))
                /\ LockGate(locks, f, Some(v), now) = "pass"
                /\ can_user_edit(locks, f, v, now)
           /\ LockGate(locks, f, None, now) = "pass"

\* Another user has taken over an expired entry that was still in the map.
C7_Witness ==
    \E f \in Files :
        /\ ~lockLog[f].none
        /\ lockLog[f].val.op = "try_acquire"
        /\ lockLog[f].val.ok
        /\ ~lockLog[f].val.before.none
        /\ lockLog[f].val.before.val.user_id # lockLog[f].val.user
        /\ lockLog[f].val.before.val.expires_at <= lockLog[f].val.at
        /\ locks[f] = lockLog[f].val.after
        /\ locks[f].val.user_id = lockLog[f].val.user

\* C8: a try_acquire(f, u, d') by the holder u of an unexpired lock returns true,
\* keeps the acquired_at of the first call and sets expires_at to the time of
\* this call plus d'.
C8_RenewKeepsAcquiredAt ==
    \A f \in Files :
        (/\ ~lockLog[f].none
         /\ lockLog[f].val.op = "try_acquire"
         /\ is_file_locked(Before(f), f, lockLog[f].val.at) = Some(lockLog[f].val.user))
        => /\ lockLog[f].val.ok
           /\ ~lockLog[f].val.after.none
           /\ lockLog[f].val.after.val.user_id = lockLog[f].val.user
           /\ lockLog[f].val.after.val.acquired_at = lockLog[f].val.before.val.acquired_at
           /\ lockLog[f].val.after.val.expires_at = lockLog[f].val.at + lockLog[f].val.duration

\* A renewal later than the first call and with another duration.
C8_Witness ==
    \E f \in Files :
        /\ ~lockLog[f].none
        /\ lockLog[f].val.op = "try_acquire"
        /\ lockLog[f].val.ok
        /\ ~lockLog[f].val.before.none
        /\ lockLog[f].val.before.val.user_id = lockLog[f].val.user
        /\ lockLog[f].val.before.val.expires_at > lockLog[f].val.at
        /\ lockLog[f].val.before.val.acquired_at < lockLog[f].val.at
        /\ lockLog[f].val.before.val.duration # lockLog[f].val.duration
        /\ locks[f] = lockLog[f].val.after

(***************************************************************************)
(* Conflict and merge properties.                                          *)
(***************************************************************************)
\* C9: when a save whose base_version is neither the head nor "initial" reads
\* a base and a head that do not merge with its content, it answers 409
\* conflict with the head it found as new_version, and neither that step nor
\* any earlier step of the request writes metadata or blobs.
C9_ConflictWritesNothing ==
    [][\A s \in Slots :
        LET r == reqs[s]
            base_content == get_file_version_content(r.file, r.base)
            current_content == get_file_version_content(r.file, r.head)
        IN  (/\ r.kind = "save" /\ r.pc = "merge_read" /\ reqs'[s].pc # "merge_read"
             /\ ~base_content.none /\ ~current_content.none
             /\ attempt_auto_merge(base_content.val, r.content.val, current_content.val).none)
            => /\ r.base # r.head /\ r.base # INITIAL
               /\ reqs'[s].pc = "done"
               /\ reqs'[s].resp.http = 409
               /\ reqs'[s].resp.status = "conflict"
               /\ reqs'[s].resp.new_version = Some(r.head)
               /\ load_versioned_file_metadata(r.file).current_version = r.head
                    => reqs'[s].resp.new_version
                         = Some(load_versioned_file_metadata(r.file)'.current_version)
               /\ ~reqs'[s].wrote
               /\ meta' = meta /\ blobs' = blobs]_vars

\* A stale save has been answered with a conflict.
C9_Witness ==
    \E s \in Slots :
        /\ reqs[s].resp.status = "conflict"
        /\ reqs[s].resp.conflicts # <<>>
        /\ reqs[s].base \notin {reqs[s].head, INITIAL}

\* The lines (counted from 1) on which text differs from base.
ChangedLines(base, text) ==
    {i \in 1..Len(Tokens(base)) : Tokens(base)[i] # Tokens(text)[i]}

\* C10: when the submitter's text and the head's text have as many lines as
\* the base and differ from it on disjoint sets of lines, adjacent or not, the
\* merge succeeds and takes, line by line, the submitter's line where the
\* submitter changed it, the head's line where the head changed it, and the
\* base line otherwise.
C10_DisjointLinesAutoMerge ==
    (/\ mOut.op = "merge"
     /\ Len(mIn.your.lines) = Len(mIn.base.lines)
     /\ Len(mIn.their.lines) = Len(mIn.base.lines)
     /\ ChangedLines(mIn.base, mIn.your) \cap ChangedLines(mIn.base, mIn.their) = {})
    => /\ ~mOut.merged.none
       /\ mOut.merged.val.lines =
            [i \in 1..Len(mIn.base.lines) |->
                IF i \in ChangedLines(mIn.base, mIn.your) THEN mIn.your.lines[i]
                ELSE IF i \in ChangedLines(mIn.base, mIn.their) THEN mIn.their.lines[i]
                ELSE mIn.base.lines[i]]

InitMerge ==
    /\ \E n \in 0..MaxLines, nls \in NlCases, ya \in Appends, ta \in Appends :
         \E yo \in [1..n -> YourOps], to \in [1..n -> TheirOps] :
            mIn = MergeInput(n, yo, ya, to, ta, nls)
    /\ mOut = NoOutput
    /\ InitRest

\* The save and merge handlers call attempt_auto_merge and, when it returns
\* None, compare_versions on the same three texts.
CallDiffMerge ==
    /\ mOut = NoOutput
    /\ mOut' = [op |-> "merge",
                merged |-> attempt_auto_merge(mIn.base, mIn.your, mIn.their),
                diff |-> compare_versions(mIn.base, mIn.your, mIn.their)]
    /\ UNCHANGED <<now, locks, lockLog, lockGrant, meta, blobs, nextId, reqs, arrived, mIn>>

NextMerge == CallDiffMerge

SpecMerge == InitMerge /\ [][NextMerge]_vars

\* Longer texts with fewer edits: the submitter deletes lines, the head rewrites
\* lines.
InitShift ==
    /\ \E n \in 0..MaxShiftLines, nls \in NlCases :
         \E yo \in [1..n -> {"keep", "del"}], to \in [1..n -> {"keep", "x"}] :
            mIn = MergeInput(n, yo, <<>>, to, <<>>, nls)
    /\ mOut = NoOutput
    /\ InitRest

SpecShift == InitShift /\ [][NextMerge]_vars

(***************************************************************************)
(* GET /files/{file_id}/history: version_storage::get_file_versions        *)
(***************************************************************************)
\* A version as the listing returns it: the record with its id.
Listed(metadata, version_id) ==
    [version_id |-> version_id, version |-> metadata.versions[version_id]]

\* Variant: the older version compares Less.
ComesFirst_older(a, b) == a.version.timestamp < b.version.timestamp

\* The closure |a, b| b.timestamp.cmp(&a.timestamp) returns Less: a is put
\* before b.
ComesFirst(a, b) == b.version.timestamp < a.version.timestamp

\* Insertion of x into a sorted list, behind the elements that x does not come
\* first of (sort_by is stable).
RECURSIVE InsertSorted(_, _)
InsertSorted(x, sorted) ==
    IF sorted = <<>> THEN <<x>>
    ELSE IF ComesFirst(x, Head(sorted)) THEN <<x>> \o sorted
    ELSE <<Head(sorted)>> \o InsertSorted(x, Tail(sorted))

\* sorted_versions.sort_by(|a, b| b.timestamp.cmp(&a.timestamp))
RECURSIVE sort_by(_)
sort_by(versions) ==
    IF versions = <<>> THEN <<>>
    ELSE InsertSorted(versions[Len(versions)],
                      sort_by(SubSeq(versions, 1, Len(versions) - 1)))

\* get_file_versions.  order is the order in which HashMap::values() yields the
\* versions; limit and skip are Option<usize>, branch is Option<&str>.
get_file_versions(metadata, branch, limit, skip, order) ==
    IF ~branch.none /\ branch.val \notin DOMAIN metadata.branches
    THEN [err |-> "BadRequest"]
    ELSE IF ~branch.none
            /\ metadata.branches[branch.val].head_version \notin DOMAIN metadata.versions
    THEN [err |-> "InternalServerError"]
    ELSE LET versions ==
                 IF ~branch.none
                 THEN <<Listed(metadata, metadata.branches[branch.val].head_version)>>
                 ELSE [i \in 1..Len(order) |-> Listed(metadata, order[i])]
             sorted_versions == sort_by(versions)
             total_count == Len(sorted_versions)
             skip_count == IF skip.none THEN 0 ELSE skip.val
             skipped == SubSeq(sorted_versions, skip_count + 1, total_count)
             paginated_versions == IF limit.none THEN skipped
                                   ELSE SubSeq(skipped, 1, Min(limit.val, Len(skipped)))
         IN  [err |-> "", versions |-> paginated_versions, total_count |-> total_count,
              current_version |-> metadata.current_version]

\* The orders in which a map with these keys can be iterated.
Orders(keys) ==
    {o \in [1..Cardinality(keys) -> keys] : \A i, j \in DOMAIN o : o[i] = o[j] => i = j}

\* A file with up to MaxHistory versions, their timestamps in any order and
\* with ties, one branch on the first id, and any of the ids as head.
InitHistory ==
    /\ \E n \in 1..MaxHistory :
        \E stamps \in [1..n -> 1..MaxHistory], current_version \in 1..n :
            /\ mIn = [current_version |-> current_version,
                      versions |-> [v \in 1..n |->
                            [user_id |-> "A", message |-> "message",
                             content_hash |-> calculate_content_hash(Text(<<"a">>, FALSE)),
                             timestamp |-> stamps[v]]],
                      branches |-> Put(EmptyMap, "S", FileBranch("feat", "A", 1, 1)),
                      active_editors |-> <<>>]
    /\ mOut = NoOutput
    /\ InitRest

\* One call of get_file_versions on the file.
CallGetFileVersions ==
    /\ mOut = NoOutput
    /\ \E branch \in {None, Some("S"), Some("U")},
          limit \in {None} \cup {Some(k) : k \in 0..MaxHistory},
          skip \in {None} \cup {Some(k) : k \in 0..MaxHistory},
          order \in Orders(DOMAIN mIn.versions) :
            mOut' = [op |-> "history", branch |-> branch, limit |-> limit, skip |-> skip,
                     result |-> get_file_versions(mIn, branch, limit, skip, order)]
    /\ UNCHANGED <<now, locks, lockLog, lockGrant, meta, blobs, nextId, reqs, arrived, mIn>>

NextHistory == CallGetFileVersions

SpecHistory == InitHistory /\ [][NextHistory]_vars


C12_BlobBeforeMetadata ==
    [][\A f \in Files :
        (meta'[f] # meta[f] /\ ~meta'[f].none)
            => LET old == load_versioned_file_metadata(f)
                   new == meta'[f].val
                   Refs(d) == DOMAIN d.versions
                                \cup ({d.current_version} \ {INITIAL})
                                \cup ({d.branches[b].head_version : b \in DOMAIN d.branches}
                                        \ {INITIAL})
               IN  \A v \in Refs(new) \ Refs(old) : ~get_file_version_content(f, v).none]_vars

\* C13: a save that ends in an error because a file write failed has not
\* partially committed: the version id it drew is either no key of the
\* persisted versions map and not the current_version (the state before the
\* request), or it is the current_version, a key of versions and has a
\* readable blob (fully committed).
C13_FailedSaveCommitsAllOrNothing ==
    [][\A s \in Slots :
        LET r == reqs[s]
            v == r.version_id
            after == (load_versioned_file_metadata(r.file))'
        IN  (/\ r.kind = "save" /\ r.pc # "done" /\ reqs'[s].pc = "done"
             /\ reqs'[s].resp = Failed /\ v # INITIAL)
            => \/ v \notin DOMAIN after.versions /\ after.current_version # v
               \/ /\ v \in DOMAIN after.versions /\ after.current_version = v
                  /\ v \in DOMAIN blobs'[r.file]]_vars

\* C14: under every interleaving of the requests, a version that is a key of a
\* file's versions map stays a key with the same record (user, message, hash,
\* timestamp), and a blob once written keeps its content: versions are
\* immutable and never deleted.
C14_VersionsImmutable ==
    [][\A f \in Files :
        LET old == load_versioned_file_metadata(f)
            new == (load_versioned_file_metadata(f))'
        IN  /\ \A v \in DOMAIN old.versions :
                v \in DOMAIN new.versions /\ new.versions[v] = old.versions[v]
            /\ \A v \in DOMAIN blobs[f] :
                v \in DOMAIN blobs'[f] /\ blobs'[f][v] = blobs[f][v]]_vars

\* C15: every version V of a file's versions map has a blob, and V's
\* content_hash is the hash of that blob; two versions with identical content
\* have equal hashes under distinct version ids.
C15_HashOfBlob ==
    \A f \in Files :
        LET versions == load_versioned_file_metadata(f).versions
        IN  /\ \A v \in DOMAIN versions :
                /\ ~get_file_version_content(f, v).none
                /\ versions[v].content_hash
                     = calculate_content_hash(get_file_version_content(f, v).val)
            /\ \A v, w \in DOMAIN versions \cap DOMAIN blobs[f] :
                blobs[f][v] = blobs[f][w]
                    => versions[v].content_hash = versions[w].content_hash

\* The entries of a roster that belong to other users than u, in order.
Others(editors, u) == SelectSeq(editors, LAMBDA e : e.user_id # u)

\* C16: a persisted roster has at most one entry per user_id; a registration
\* by u writes a roster whose only entry for u is the one it has just made
\* (editing_since is the time of this call, so a second registration replaces
\* the first), an unregistration by u writes a roster with no entry for u, and
\* both keep the entries of the other users.
C16_OneRosterEntryPerUser ==
    /\ [](\A f \in Files :
            LET editors == load_versioned_file_metadata(f).active_editors
            IN  \A i, j \in 1..Len(editors) :
                    editors[i].user_id = editors[j].user_id => i = j)
    /\ [][\A s \in Slots :
            LET r == reqs[s]
                u == r.user
                before == r.metadata.active_editors
                after == (load_versioned_file_metadata(r.file))'.active_editors
                mine == SelectSeq(after, LAMBDA e : e.user_id = u)
            IN  (r.pc = "editor_write" /\ reqs'[s].resp.http = 200)
                => /\ Others(after, u) = Others(before, u)
                   /\ r.kind = "edit" => mine = <<ActiveEditor(u, now)>>
                   /\ r.kind = "release" => mine = <<>>]_vars

\* Two registrations by A have been written, the second later than B's, and
\* the roster holds B's entry and one entry of A, the later one.
C16_Witness ==
    /\ \A s \in Slots : /\ reqs[s].kind = "edit" /\ reqs[s].user = "A"
                        /\ reqs[s].pc = "done" /\ reqs[s].wrote
    /\ \E f \in Files :
        LET editors == load_versioned_file_metadata(f).active_editors
        IN  /\ Len(editors) = 2
            /\ editors[1].user_id = "B"
            /\ editors[2].user_id = "A"
            /\ editors[2].editing_since > editors[1].editing_since

\* C17: in every persisted metadata document, the base_version and the
\* head_version of every branch are keys of the document's versions map.
C17_BranchesReferenceVersions ==
    \A f \in Files :
        LET metadata == load_versioned_file_metadata(f)
        IN  \A b \in DOMAIN metadata.branches :
                /\ metadata.branches[b].base_version \in DOMAIN metadata.versions
                /\ metadata.branches[b].head_version \in DOMAIN metadata.versions

\* C18: a create-branch request whose base_version is neither a key of the
\* file's versions map nor "initial" is answered 400 at the validation, with
\* or without content, and neither that step nor any other step of the
\* request writes metadata or a blob or draws an id: no branch, no version
\* and no blob is added.
C18_UnknownBaseRejected ==
    [][\A s \in Slots :
        LET r == reqs[s]
            metadata == load_versioned_file_metadata(r.file)
        IN  (/\ r.kind = "branch" /\ HandlerEntry(r) /\ reqs'[s].pc # r.pc
             /\ r.base \notin DOMAIN metadata.versions /\ r.base # INITIAL)
            => /\ reqs'[s].pc = "done"
               /\ reqs'[s].resp.http = 400
               /\ ~reqs'[s].wrote
               /\ meta' = meta /\ blobs' = blobs /\ nextId' = nextId]_vars

\* A create-branch request with content and an id that is no version of the
\* file has been answered 400.
C18_Witness ==
    \E s \in Slots :
        /\ reqs[s].kind = "branch" /\ reqs[s].pc = "done"
        /\ ~reqs[s].content.none
        /\ reqs[s].base # INITIAL
        /\ reqs[s].base \notin DOMAIN load_versioned_file_metadata(reqs[s].file).versions
        /\ reqs[s].resp.http = 400
        /\ ~reqs[s].wrote

\* The steps of a merge request on worker s, as C19 describes them.  The blob
\* step writes one blob under a fresh id and no metadata.  The metadata step of
\* a merge that succeeds writes the loaded document with exactly one more
\* version, the one of that blob, and one pointer moved to it: current_version
\* for target main or master, otherwise the target branch's head_version; the
\* other branches, every base_version, the roster and (for a branch target)
\* current_version are as loaded.  With source_kept the source branch's head
\* is required to be as loaded whatever the target is; without, only when the
\* source is not the target.  A merge that finds the texts in conflict answers
\* 409 with the conflicts of compare_versions and the text of
\* create_marked_merge, which carries the markers of every conflict, and no
\* step of it has written metadata or a blob.
MergeSteps(s, source_kept) ==
    LET r == reqs[s]
        f == r.file
        v == r.version_id
        old == r.metadata
        new == (load_versioned_file_metadata(f))'
        main == r.target_branch \in {"main", "master"}
        source == old.branches[r.source_branch]
        base_content == blobs[f][source.base_version]
        source_content == blobs[f][source.head_version]
        target_content == blobs[f][r.head]
    IN  /\ (r.pc = "merge_branches_blob" /\ reqs'[s].pc # r.pc)
            => /\ reqs'[s].version_id \notin DOMAIN blobs[f]
               /\ reqs'[s].version_id \notin DOMAIN old.versions
               /\ blobs'[f] = Put(blobs[f], reqs'[s].version_id, r.towrite)
               /\ meta' = meta
        /\ (r.pc = "merge_branches_meta" /\ reqs'[s].pc # r.pc)
            => /\ reqs'[s].resp = Resp(200, "merged", Some(v), <<>>)
               /\ blobs' = blobs /\ v \in DOMAIN blobs[f]
               /\ DOMAIN new.versions = DOMAIN old.versions \cup {v}
               /\ \A w \in DOMAIN old.versions : new.versions[w] = old.versions[w]
               /\ new.versions[v].content_hash = calculate_content_hash(blobs[f][v])
               /\ new.active_editors = old.active_editors
               /\ DOMAIN new.branches = DOMAIN old.branches
               /\ \A b \in DOMAIN old.branches :
                    /\ new.branches[b].base_version = old.branches[b].base_version
                    /\ new.branches[b].head_version =
                         IF ~main /\ b = r.target_branch THEN v
                         ELSE old.branches[b].head_version
               /\ new.current_version = IF main THEN v ELSE old.current_version
               /\ source_kept
                    => new.branches[r.source_branch].head_version = source.head_version
        /\ (r.pc = "merge_branches_read" /\ reqs'[s].resp.http = 409)
            => /\ reqs'[s].pc = "done"
               /\ reqs'[s].resp.status = "conflict"
               /\ reqs'[s].resp.conflicts
                    = compare_versions(base_content, source_content, target_content).conflicts
               /\ reqs'[s].marked_content
                    = create_marked_merge(base_content, source_content, target_content)
               /\ reqs'[s].resp.conflicts # <<>>
                    => \E i \in 1..Len(reqs'[s].marked_content.lines) :
                          reqs'[s].marked_content.lines[i] = "<<<<<<< CURRENT CHANGES"
               /\ ~reqs'[s].wrote
               /\ meta' = meta /\ blobs' = blobs

C20_HistoryNewestFirstPaged ==
    (mOut.op = "history" /\ mOut.branch.none)
        => LET res == mOut.result
               all == DOMAIN mIn.versions
               stamp(v) == mIn.versions[v].timestamp
               skip == IF mOut.skip.none THEN 0 ELSE mOut.skip.val
               rest == IF Cardinality(all) > skip THEN Cardinality(all) - skip ELSE 0
               n == IF mOut.limit.none THEN rest ELSE Min(mOut.limit.val, rest)
           IN  /\ res.err = ""
               /\ res.total_count = Cardinality(all)
               /\ res.current_version = mIn.current_version
               /\ Len(res.versions) = n
               /\ \A i \in 1..n :
                    LET e == res.versions[i]
                    IN  /\ e.version_id \in all
                        /\ e.version = mIn.versions[e.version_id]
                        /\ \A j \in 1..n : res.versions[j].version_id = e.version_id => j = i
                        /\ i < n => stamp(res.versions[i + 1].version_id) <= stamp(e.version_id)
                        /\ Cardinality({v \in all : stamp(v) > stamp(e.version_id)})
                             <= skip + i - 1
                        /\ Cardinality({v \in all : stamp(v) >= stamp(e.version_id)})
                             >= skip + i

\* The listing of four versions V0 < V1 < V2 < V3 (ids 1 to 4, head 4) with
\* limit 2 and skip 1 has returned [V2, V1], total_count 4 and current_version
\* V3.
C20_Witness ==
    /\ mOut.op = "history" /\ mOut.branch.none
    /\ mOut.limit = Some(2) /\ mOut.skip = Some(1)
    /\ DOMAIN mIn.versions = 1..4
    /\ \A v \in 1..4 : mIn.versions[v].timestamp = v
    /\ mIn.current_version = 4
    /\ Len(mOut.result.versions) = 2
    /\ mOut.result.versions[1].version_id = 3
    /\ mOut.result.versions[2].version_id = 2
    /\ mOut.result.total_count = 4
    /\ mOut.result.current_version = 4

(***************************************************************************)
(* extract_resolved_content on its own.                                    *)
(***************************************************************************)
\* The lines a submitted text is made of: two ordinary lines, a line that
\* holds "<<<<<<< " in its middle, and the three markers.
MarkedLines == {"a", "b", "see <<<<<<< below",
                "<<<<<<< CURRENT CHANGES", "=======", ">>>>>>> YOUR CHANGES"}

InitStrip ==
    /\ \E n \in 0..MaxMarked, nl \in BOOLEAN :
        \E ls \in [1..n -> MarkedLines] :
            /\ n = 0 => ~nl
            /\ mIn = Text(ls, nl)
    /\ mOut = NoOutput
    /\ InitRest

CallExtractResolved ==
    /\ mOut = NoOutput
    /\ mOut' = [op |-> "strip", text |-> extract_resolved_content(mIn)]
    /\ UNCHANGED <<now, locks, lockLog, lockGrant, meta, blobs, nextId, reqs, arrived, mIn>>

NextStrip == CallExtractResolved

SpecStrip == InitStrip /\ [][NextStrip]_vars

(***************************************************************************)
(* create_marked_merge followed by extract_resolved_content.               *)
(***************************************************************************)
\* The three texts of InitMerge, for the merges with at most MaxMarkedConflicts
\* conflicts; a line of your text may also be the underline of a heading,
\* "=======".
InitMarked ==
    /\ \E n \in 0..MaxMarkedBase, nls \in NlCases, ya \in Appends, ta \in Appends :
         \E yo \in [1..n -> YourOps \cup {"======="}], to \in [1..n -> TheirOps] :
            mIn = MergeInput(n, yo, ya, to, ta, nls)
    /\ Len(compare_versions(mIn.base, mIn.your, mIn.their).conflicts) <= MaxMarkedConflicts
    /\ mOut = NoOutput
    /\ InitRest

\* The marked text that merge_branches answers with, sent back unchanged to
\* resolve_conflicts.
CallMarkedResolve ==
    /\ mOut = NoOutput
    /\ mOut' = [op |-> "marked",
                conflicts |-> compare_versions(mIn.base, mIn.your, mIn.their).conflicts,
                marked_content |-> create_marked_merge(mIn.base, mIn.your, mIn.their),
                resolved_content |-> extract_resolved_content(
                                        create_marked_merge(mIn.base, mIn.your, mIn.their))]
    /\ UNCHANGED <<now, locks, lockLog, lockGrant, meta, blobs, nextId, reqs, arrived, mIn>>

NextMarked == CallMarkedResolve

SpecMarked == InitMarked /\ [][NextMarked]_vars


(***************************************************************************)
(* Claims C21 to C30.                                                      *)
(***************************************************************************)
\* The stripping as C22 words it, from line i on; where is "outside" (no block
\* open), "current" (after a "<<<<<<< " line) or "yours" (after the "=======" of
\* an open block).  A "=======" or ">>>>>>> " line outside a block is a line
\* like any other.
RECURSIVE KeptFrom(_, _, _)
KeptFrom(lines, i, where) ==
    IF i > Len(lines) THEN <<>>
    ELSE IF where = "outside" THEN
        (IF StartsConflict(lines[i]) THEN KeptFrom(lines, i + 1, "current")
         ELSE <<lines[i]>> \o KeptFrom(lines, i + 1, "outside"))
    ELSE IF where = "current" THEN
        (IF IsSeparator(lines[i]) THEN KeptFrom(lines, i + 1, "yours")
         ELSE KeptFrom(lines, i + 1, "current"))
    ELSE
        (IF EndsConflict(lines[i]) THEN KeptFrom(lines, i + 1, "outside")
         ELSE <<lines[i]>> \o KeptFrom(lines, i + 1, "yours"))

\* Where the text stands after its last line, or "broken" when a block is not
\* made of a "<<<<<<< " line, lines, a "=======" line, lines and a ">>>>>>> "
\* line (a marker of another block inside it).
RECURSIVE BlocksFrom(_, _, _)
BlocksFrom(lines, i, where) ==
    IF i > Len(lines) THEN where
    ELSE IF where = "outside" THEN
        BlocksFrom(lines, i + 1, IF StartsConflict(lines[i]) THEN "current" ELSE "outside")
    ELSE IF StartsConflict(lines[i]) THEN "broken"
    ELSE IF where = "current" THEN
        (IF EndsConflict(lines[i]) THEN "broken"
         ELSE BlocksFrom(lines, i + 1, IF IsSeparator(lines[i]) THEN "yours" ELSE "current"))
    ELSE
        (IF IsSeparator(lines[i]) THEN "broken"
         ELSE BlocksFrom(lines, i + 1, IF EndsConflict(lines[i]) THEN "outside" ELSE "yours"))

\* C22: for a text all of whose marker blocks are complete, the stripped text
\* consists, in order, of the lines outside any block (a "=======" line outside
\* a block among them) and the lines between the "=======" and the ">>>>>>> "
\* line of each block; the lines between "<<<<<<< " and "=======" and the
\* three marker lines of each block are gone.
C22_StripKeepsOutsideAndAccepted ==
    (mOut.op = "strip" /\ BlocksFrom(Lines(mIn), 1, "outside") = "outside")
        => Lines(mOut.text) = KeptFrom(Lines(mIn), 1, "outside")

\* C21: a resolve-conflicts request is never turned away for its base_version
\* or current_version: it goes from the handler's entry to the blob write
\* whatever the file's head is; the blob it writes under its fresh id is the
\* content as extract_resolved_content returns it, without any marker line when
\* the submitted text holds a block; the document it writes holds that id as
\* current_version and, under it, a version of the submitting user with the
\* supplied message and the hash of the stripped content; it answers 200
\* saved with that id.
C21_ResolveMintsNewHead ==
    [][\A s \in Slots :
        LET r == reqs[s]
            f == r.file
            v == reqs'[s].version_id
            stripped == extract_resolved_content(r.content.val)
            new == (load_versioned_file_metadata(f))'
        IN  r.kind = "resolve" =>
            /\ (HandlerEntry(r) /\ reqs'[s].pc # r.pc)
                => /\ reqs'[s].pc = "resolve_blob"
                   /\ v \notin DOMAIN load_versioned_file_metadata(f).versions
                   /\ v \notin DOMAIN blobs[f]
            /\ (r.pc = "resolve_blob" /\ reqs'[s].pc # r.pc)
                => /\ reqs'[s].pc = "resolve_meta"
                   /\ blobs'[f] = Put(blobs[f], v, stripped)
                   /\ conflict_start_re_is_match(r.content.val)
                        => \A i \in 1..Len(Lines(blobs'[f][v])) :
                                LET line == Lines(blobs'[f][v])[i]
                                IN  ~StartsConflict(line) /\ ~IsSeparator(line)
                                        /\ ~EndsConflict(line)
            /\ (r.pc = "resolve_meta" /\ reqs'[s].pc # r.pc)
                => /\ reqs'[s].resp = Resp(200, "saved", Some(v), <<>>)
                   /\ new.current_version = v
                   /\ DOMAIN new.versions = DOMAIN r.metadata.versions \cup {v}
                   /\ v \notin DOMAIN r.metadata.versions
                   /\ new.versions[v] = FileVersion(r.user, "message", stripped, now)
                   /\ get_file_version_content(f, v) = Some(stripped)]_vars

\* A resolution whose base_version was not the head of the versioned file it
\* found has been answered saved; its version is the head and holds the
\* submitted text without the block's markers and current side.
C21_Witness ==
    \E s \in Slots :
        LET r == reqs[s]
            metadata == load_versioned_file_metadata(r.file)
        IN  /\ r.kind = "resolve" /\ r.resp.status = "saved"
            /\ r.content = Some(MarkedText)
            /\ r.head # INITIAL /\ r.base # r.head /\ r.base # INITIAL
            /\ metadata.current_version = r.resp.new_version.val
            /\ r.resp.new_version.val \in DOMAIN metadata.versions
            /\ get_file_version_content(r.file, r.resp.new_version.val)
                 = Some(Text(<<"a">>, FALSE))

\* part occurs in whole as a run of consecutive lines.
ContainsLines(whole, part) ==
    \E k \in 0..Len(whole) :
        /\ k + Len(part) <= Len(whole)
        /\ SubSeq(whole, k + 1, k + Len(part)) = part

\* C23: when the three texts have at least one conflict, the text that
\* stripping returns for the marked merge contains the your_content of every
\* conflict, and none of its lines is a "<<<<<<< ", "=======" or ">>>>>>> "
\* marker line.
C23_StripOfMarkedKeepsYours ==
    (mOut.op = "marked" /\ mOut.conflicts # <<>>)
        => /\ \A k \in 1..Len(mOut.conflicts) :
                ContainsLines(Lines(mOut.resolved_content), mOut.conflicts[k].your_content)
           /\ \A i \in 1..Len(Lines(mOut.resolved_content)) :
                LET line == Lines(mOut.resolved_content)[i]
                IN  ~StartsConflict(line) /\ ~IsSeparator(line) /\ ~EndsConflict(line)

\* C26: release(f, u) removes f's entry exactly when its holder is u, expired
\* or not, and returns true exactly when it removed an entry; in every other
\* case it returns false and the registry is as it was.
C26_ReleaseOnlyByHolder ==
    [][\A f \in Files :
        (lockLog'[f] # lockLog[f] /\ lockLog'[f].val.op = "release")
        => LET u == lockLog'[f].val.user
               held == ~locks[f].none /\ locks[f].val.user_id = u
           IN  /\ lockLog'[f].val.ok = held
               /\ held => locks' = [locks EXCEPT ![f] = None]
               /\ ~held => locks' = locks]_vars

\* The holder has released an unexpired lock, and the entry is gone.
C26_Witness ==
    \E f \in Files :
        /\ ~lockLog[f].none
        /\ lockLog[f].val.op = "release"
        /\ lockLog[f].val.ok
        /\ ~lockLog[f].val.before.none
        /\ lockLog[f].val.before.val.user_id = lockLog[f].val.user
        /\ lockLog[f].val.before.val.expires_at > lockLog[f].val.at
        /\ locks[f].none

\* C29: try_acquire(f, u, d) on a file whose entry has expires_at <= now
\* returns true and leaves the entry {u, acquired_at = now, expires_at = now + d},
\* whoever held the expired entry, u included.
C29_ExpiredLockReplacedFresh ==
    \A f \in Files :
        (/\ ~lockLog[f].none
         /\ lockLog[f].val.op = "try_acquire"
         /\ ~lockLog[f].val.before.none
         /\ lockLog[f].val.before.val.expires_at <= lockLog[f].val.at)
        => /\ lockLog[f].val.ok
           /\ lockLog[f].val.after
                = Some(FileLock(lockLog[f].val.user, lockLog[f].val.at,
                                lockLog[f].val.at + lockLog[f].val.duration,
                                lockLog[f].val.duration))

\* C30: cleanup_expired removes exactly the entries with expires_at <= now and
\* returns how many they are; an unexpired entry stays as it is, and is_locked
\* and can_user_edit answer the same on the map before and after.
C30_CleanupRemovesExpiredOnly ==
    LET r == cleanup_expired_locks(locks, now)
        expired == {f \in Files : ~locks[f].none /\ locks[f].val.expires_at <= now}
    IN  /\ \A f \in Files : r.locks[f] = IF f \in expired THEN None ELSE locks[f]
        /\ r.removed = Cardinality(expired)
        /\ \A f \in Files :
            /\ is_file_locked(r.locks, f, now) = is_file_locked(locks, f, now)
            /\ \A u \in Users :
                can_user_edit(r.locks, f, u, now) = can_user_edit(locks, f, u, now)

\* A cleanup has removed an entry that try_acquire had installed and that has
\* expired since (a release would be the last call recorded for the file).
C30_Witness ==
    \E f \in Files :
        /\ ~lockLog[f].none
        /\ lockLog[f].val.op = "try_acquire"
        /\ lockLog[f].val.ok
        /\ lockLog[f].val.after.val.expires_at <= now
        /\ locks[f].none


\* C25: a save with base_version "initial" that finds the file versioned goes
\* the clean path whatever head it finds: it reads no version, writes exactly
\* the submitted content under a fresh id, writes the document with that id as
\* current_version and a version of the submitting user with the hash of the
\* submitted content, and answers 200 saved with that id.
C25_InitialBaseSavesUnmerged ==
    [][\A s \in Slots :
        LET r == reqs[s]
            f == r.file
            v == reqs'[s].version_id
            new == (load_versioned_file_metadata(f))'
        IN  (r.kind = "save" /\ r.base = INITIAL) =>
            /\ (HandlerEntry(r) /\ reqs'[s].pc # r.pc
                    /\ DOMAIN load_versioned_file_metadata(f).versions # {})
                => reqs'[s].pc = "write_blob"
            /\ (r.path # "init" /\ r.pc \in {"write_blob", "merge_read"} /\ reqs'[s].pc # r.pc)
                => /\ reqs'[s].pc = "write_meta"
                   /\ v \notin DOMAIN blobs[f]
                   /\ blobs'[f] = Put(blobs[f], v, r.content.val)
            /\ (r.path # "init" /\ r.pc = "write_meta" /\ reqs'[s].pc # r.pc)
                => /\ reqs'[s].resp = Resp(200, "saved", Some(v), <<>>)
                   /\ new.current_version = v
                   /\ DOMAIN new.versions = DOMAIN r.metadata.versions \cup {v}
                   /\ v \notin DOMAIN r.metadata.versions
                   /\ new.versions[v] = FileVersion(r.user, "message", r.content.val, now)
                   /\ get_file_version_content(f, v) = r.content]_vars

\* A save with base_version "initial" has found a head of other content, and
\* has been answered saved; the head is now its version, holding its content.
C25_Witness ==
    \E s \in Slots :
        LET r == reqs[s]
            metadata == load_versioned_file_metadata(r.file)
        IN  /\ r.kind = "save" /\ r.base = INITIAL /\ r.resp.status = "saved"
            /\ r.head # INITIAL
            /\ r.head \in DOMAIN metadata.versions
            /\ get_file_version_content(r.file, r.head) # r.content
            /\ metadata.current_version = r.resp.new_version.val
            /\ get_file_version_content(r.file, r.resp.new_version.val) = r.content


\* u is in the roster of the file's persisted document.
InRoster(f, u) ==
    \E i \in 1..Len(load_versioned_file_metadata(f).active_editors) :
        load_versioned_file_metadata(f).active_editors[i].user_id = u

\* C24: a POST /edit by u that passes the lock middleware while the file has no
\* valid lock leaves u holder of the lock, and its handler leaves u in the
\* roster; a POST /edit by u that reaches the middleware while another user
\* holds an unexpired lock is answered 409 there and goes no further; a POST
\* /release by u leaves the file without a lock of u after the middleware and
\* u out of the roster after its handler.
C24_EditAndLockMoveTogether ==
    [][\A s \in Slots :
        LET r == reqs[s]
            f == r.file
            holder == is_file_locked(locks, f, now)
        IN  /\ (r.kind = "edit" /\ r.pc = "FileLockMiddleware" /\ reqs'[s].pc # r.pc)
                => IF ~holder.none /\ holder.val # r.user
                   THEN /\ reqs'[s].pc = "done"
                        /\ reqs'[s].resp.http = 409
                        /\ locks'[f] = locks[f]
                   ELSE /\ reqs'[s].pc # "done"
                        /\ is_file_locked(locks', f, now) = Some(r.user)
            /\ (r.kind = "edit" /\ r.pc = "editor_write" /\ reqs'[s].pc # r.pc)
                => InRoster(f, r.user)'
            /\ (r.kind = "release" /\ r.pc = "FileLockMiddleware" /\ reqs'[s].pc # r.pc)
                => (locks'[f].none \/ locks'[f].val.user_id # r.user)
            /\ (r.kind = "release" /\ r.pc = "editor_write" /\ reqs'[s].pc # r.pc)
                => ~InRoster(f, r.user)']_vars


\* C28: when the only two requests so far are start-editing requests by
\* different users on the same file, the one that is beyond the lock middleware
\* and not yet answered holds the lock, and the other is still in front of the
\* middleware or has been answered 409 without having written the roster.
C28_ConcurrentEditsSerialised ==
    \A s1, s2 \in Slots :
        (/\ arrived = 2 /\ s1 # s2
         /\ reqs[s1].kind = "edit" /\ reqs[s2].kind = "edit"
         /\ reqs[s1].file = reqs[s2].file /\ reqs[s1].user # reqs[s2].user
         /\ reqs[s1].pc \notin {"idle", "FileLockMiddleware", "done"})
        => /\ is_file_locked(locks, reqs[s1].file, now) = Some(reqs[s1].user)
           /\ \/ reqs[s2].pc = "FileLockMiddleware"
              \/ /\ reqs[s2].pc = "done"
                 /\ reqs[s2].resp.http = 409
                 /\ ~reqs[s2].wrote

\* C27: the metadata write of a save on a versioned file keeps the roster that
\* is in the file's document when it writes, and the roster write of a start or
\* stop editing keeps the versions and the current_version that are in the
\* document when it writes, the new_version of a save that ran beside it
\* included.
C27_MetadataUpdatesAtomic ==
    [][\A s \in Slots :
        LET r == reqs[s]
            old == load_versioned_file_metadata(r.file)
            new == (load_versioned_file_metadata(r.file))'
        IN  /\ (r.kind = "save" /\ r.path # "init" /\ r.pc = "write_meta"
                    /\ reqs'[s].pc # r.pc)
                => new.active_editors = old.active_editors
            /\ (r.kind \in {"edit", "release"} /\ r.pc = "editor_write"
                    /\ reqs'[s].pc # r.pc)
                => /\ new.versions = old.versions
                   /\ new.current_version = old.current_version]_vars


(***************************************************************************)
(* Claims C31 to C40.                                                      *)
(***************************************************************************)
\* Line i is in range on all three sides and both sides changed it: to the
\* same value, or to different values.
Convergent(i) ==
    /\ i <= Len(mIn.base.lines) /\ i <= Len(mIn.your.lines) /\ i <= Len(mIn.their.lines)
    /\ mIn.your.lines[i] # mIn.base.lines[i]
    /\ mIn.their.lines[i] = mIn.your.lines[i]

Divergent(i) ==
    /\ i <= Len(mIn.base.lines) /\ i <= Len(mIn.your.lines) /\ i <= Len(mIn.their.lines)
    /\ mIn.your.lines[i] # mIn.base.lines[i]
    /\ mIn.their.lines[i] # mIn.base.lines[i]
    /\ mIn.their.lines[i] # mIn.your.lines[i]

\* C31: when the submitter and the head have both changed some line i of the
\* base, attempt_auto_merge returns none exactly when on some line they changed
\* it to different values; when it succeeds, every line both changed to the
\* same value holds that value in the merged text.
C31_ConvergentEditMerges ==
    (/\ mOut.op = "merge"
     /\ \E i \in 1..Len(mIn.base.lines) : Convergent(i) \/ Divergent(i))
    => /\ mOut.merged.none <=> \E i \in 1..Len(mIn.base.lines) : Divergent(i)
       /\ ~mOut.merged.none
            => \A i \in 1..Len(mIn.base.lines) :
                    Convergent(i) => /\ i <= Len(mOut.merged.val.lines)
                                     /\ mOut.merged.val.lines[i] = mIn.your.lines[i]

\* C35: with the submitter's text equal to the base the merge succeeds with
\* the lines of the head's text, and with the head's text equal to the base it
\* succeeds with the lines of the submitter's text, shorter texts included.
C35_MergeIdentity ==
    mOut.op = "merge"
    => /\ mIn.your = mIn.base
            => /\ ~mOut.merged.none
               /\ mOut.merged.val.lines = mIn.their.lines
       /\ mIn.their = mIn.base
            => /\ ~mOut.merged.none
               /\ mOut.merged.val.lines = mIn.your.lines

\* C38: whenever attempt_auto_merge returns none for three texts,
\* compare_versions reports at least one conflict for them, so that the 409
\* conflict response built from the two carries a non-empty list.
C38_ConflictListNotEmpty ==
    (mOut.op = "merge" /\ mOut.merged.none) => mOut.diff.conflicts # <<>>


\* The inclusive ranges of two changes intersect.
RangesIntersect(c1, c2) ==
    Max(c1.start_line, c2.start_line) <= Min(c1.end_line, c2.end_line)

C33_TiesInVersionIdOrder ==
    (mOut.op = "history" /\ mOut.branch.none)
        => LET res == mOut.result
           IN  /\ \A i, j \in 1..Len(res.versions) :
                    (i < j /\ res.versions[i].version.timestamp = res.versions[j].version.timestamp)
                        => res.versions[i].version_id < res.versions[j].version_id
               /\ \A order \in Orders(DOMAIN mIn.versions) :
                    get_file_versions(mIn, mOut.branch, mOut.limit, mOut.skip, order) = res


\* C34: create_branch leaves current_version and the branches of the document
\* it loaded as they are and adds one branch under a fresh id; with initial
\* content it adds one version under a fresh id, a version of the caller, and
\* that id is the new branch's head_version; without content it adds no version
\* and the new branch's head_version is its base_version; the document it
\* writes is the one so built.
C34_CreateBranchFrame ==
    [][\A s \in Slots :
        LET r == reqs[s]
            loaded == r.metadata
            built == reqs'[s].metadata
            added == DOMAIN built.branches \ DOMAIN loaded.branches
            v == reqs'[s].version_id
        IN  r.kind = "branch" =>
            /\ (r.pc \in {"branch_blob", "branch_meta"} /\ reqs'[s].pc = "branch_write")
                => /\ built.current_version = loaded.current_version
                   /\ built.active_editors = loaded.active_editors
                   /\ \A b \in DOMAIN loaded.branches :
                        b \in DOMAIN built.branches /\ built.branches[b] = loaded.branches[b]
                   /\ Cardinality(added) = 1
                   /\ \A b \in added :
                        /\ built.branches[b].base_version = r.base
                        /\ built.branches[b].created_by = r.user
                        /\ built.branches[b].head_version
                             = IF r.content.none THEN r.base ELSE v
                   /\ IF r.content.none
                      THEN built.versions = loaded.versions /\ blobs' = blobs
                      ELSE /\ v \notin DOMAIN loaded.versions
                           /\ built.versions
                                = Put(loaded.versions, v,
                                      FileVersion(r.user, "Created branch", r.content.val, now))
                           /\ blobs'[r.file] = Put(blobs[r.file], v, r.content.val)
            /\ (r.pc = "branch_write" /\ reqs'[s].pc # r.pc)
                => (load_versioned_file_metadata(r.file))' = loaded]_vars

\* A branch with initial content has been created on a versioned file: its
\* head is the version written for it, which is not the file's current_version.
C34_Witness ==
    \E s \in Slots :
        LET r == reqs[s]
            metadata == load_versioned_file_metadata(r.file)
        IN  /\ r.kind = "branch" /\ r.resp.http = 200 /\ ~r.content.none
            /\ r.head # INITIAL
            /\ metadata.current_version = r.head
            /\ r.version_id \in DOMAIN metadata.versions
            /\ r.version_id # metadata.current_version
            /\ \E b \in DOMAIN metadata.branches :
                    metadata.branches[b].head_version = r.version_id


\* C36: the document that the first versioned save of a file writes holds the
\* editors and the branches of the document that the save loaded.
C36_FirstSaveKeepsRoster ==
    [][\A s \in Slots :
        LET r == reqs[s]
            new == (load_versioned_file_metadata(r.file))'
        IN  (r.kind = "save" /\ r.pc = "init_meta" /\ reqs'[s].pc = "init_blob")
            => /\ new.active_editors = r.metadata.active_editors
               /\ new.branches = r.metadata.branches]_vars


\* C37: a request that met, at the lock middleware, an unexpired lock of
\* another user on its file does not change the file's current_version at any
\* of its steps while that lock is held, whether it is a save, a resolution, a
\* merge or a branch creation.
C37_LockedHeadStaysPut ==
    [][\A s \in Slots :
        LET r == reqs[s]
        IN  (/\ ~r.sawLock.none /\ r.sawLock.val # r.user
             /\ is_file_locked(locks, r.file, now) = r.sawLock
             /\ reqs'[s] # r /\ r.pc \notin {"idle", "done"})
            => (load_versioned_file_metadata(r.file))'.current_version
                 = load_versioned_file_metadata(r.file).current_version]_vars


\* C39: a save that finds the file versioned and whose base_version is neither
\* the head it found, nor "initial", nor an id with a stored blob is answered
\* with an error at the read of the base, and neither that step nor an earlier
\* step of the request writes metadata or blobs.
C39_MissingBaseRejected ==
    [][\A s \in Slots :
        LET r == reqs[s]
        IN  (/\ r.kind = "save" /\ r.pc = "merge_read" /\ reqs'[s].pc # r.pc
             /\ r.base \notin DOMAIN blobs[r.file])
            => /\ reqs'[s].pc = "done"
               /\ reqs'[s].resp = Failed
               /\ ~r.wrote /\ ~reqs'[s].wrote
               /\ reqs'[s].committed.none
               /\ meta' = meta /\ blobs' = blobs]_vars

\* A save on a versioned file has been answered with an error because its
\* base_version, which is not the head it found, has no blob.
C39_Witness ==
    \E s \in Slots :
        LET r == reqs[s]
            metadata == load_versioned_file_metadata(r.file)
        IN  /\ r.kind = "save" /\ r.pc = "done" /\ r.resp = Failed
            /\ r.path = "merge"
            /\ r.base \notin {r.head, INITIAL}
            /\ r.base \notin DOMAIN blobs[r.file]
            /\ r.head \in DOMAIN metadata.versions
            /\ ~r.wrote


\* C40: a save or a resolution that has been answered with an error has not
\* installed a version as the file's current_version at any of its steps.
C40_ErrorLeavesHead ==
    \A s \in Slots :
        (/\ reqs[s].kind \in {"save", "resolve"}
         /\ reqs[s].pc = "done"
         /\ reqs[s].resp.http = 500)
        => reqs[s].committed.none


====
